---- MODULE Spec2Model ----
(***************************************************************************)
(* The agent step state machine of smolagents-rs (src/agents.rs), the      *)
(* tool registry (src/tools/tool_traits.rs), the script interpreter        *)
(* (src/local_python_interpreter.rs) and the parallel batch runner         *)
(* (src/parallel.rs).                                                      *)
(*                                                                         *)
(* Option<T> is a sequence of length <= 1: <<>> is None, <<v>> is Some(v). *)
(* Result<T, E> is a record [ok |-> TRUE, val |-> v] or                    *)
(* [ok |-> FALSE, err |-> e].                                              *)
(***************************************************************************)
EXTENDS Integers, Sequences, FiniteSets, TLC

\* ------------------------------------------------------------- bounds
\* largest max_steps an agent is constructed with
MaxSteps == 2
\* number of run calls made on one agent
MaxRuns == 2
\* largest batch handed to run_tasks_parallel
MaxTasks == 3

VARIABLES
    kind,            \* "fc" (FunctionCallingAgent) or "code" (CodeAgent)
    tools,           \* MultiStepAgent.tools: the registry, a sequence of tool names
    max_steps,       \* MultiStepAgent.max_steps
    step_number,     \* MultiStepAgent.step_number
    task,            \* MultiStepAgent.task
    logs,            \* MultiStepAgent.logs: the transcript
    state,           \* LocalPythonInterpreter.state: the environment
    pc,              \* where the caller of run is: "idle", "running", "panicked"
    reset,           \* the reset argument of the run in progress
    ret,             \* Option<Result<String>>: what the last run returned
    runs,            \* number of run calls made so far
    calls,           \* Model Gateway calls made by the run in progress
    steps,           \* loop iterations entered by the run in progress
    entry,           \* step_number when the run in progress entered its loop
    last,            \* what the last action of the run did
    ptasks,          \* run_tasks_parallel: the tasks argument
    ppc,             \* run_tasks_parallel: position of the calling thread
    worker,          \* per spawned thread: its position
    outcome,         \* per spawned thread: Option of what its closure ended with
    results,         \* run_tasks_parallel: the vector being collected
    builds,          \* per spawned thread: calls of builder() it has made
    agents,          \* the agent instances built: who built each, the runs made on it
    logger_set       \* the process-wide log sink: has log::set_logger succeeded

agentVars == <<kind, tools, max_steps, step_number, task, logs,
               state, pc, reset, ret, runs, calls, steps, entry, last>>
parVars == <<ptasks, ppc, worker, outcome, results, builds, agents, logger_set>>
vars == <<agentVars, parVars>>

\* ------------------------------------------------------------- values
None == <<>>
Some(v) == <<v>>
Ok(v) == [ok |-> TRUE, val |-> v]
Err(e) == [ok |-> FALSE, err |-> e]

\* AgentError variants; message() returns msg for every variant
Parsing(m) == [class |-> "Parsing", msg |-> m]
Execution(m) == [class |-> "Execution", msg |-> m]
Generation(m) == [class |-> "Generation", msg |-> m]

Message(r, c) == [role |-> r, content |-> c]

SystemPromptStep(p) == [tag |-> "SystemPromptStep", text |-> p]
TaskStep(t) == [tag |-> "TaskStep", text |-> t]
PlanningStep(p, f) == [tag |-> "PlanningStep", plan |-> p, facts |-> f]
ActionStep(s) == [tag |-> "ActionStep"] @@ s

\* the AgentStep direct_run creates at the head of an iteration
NewAgentStep(n) ==
    [agent_memory |-> None, llm_output |-> None, tool_call |-> None,
     error |-> None, observations |-> None, step |-> n]

RECURSIVE JoinWith(_, _)
JoinWith(ss, sep) ==
    IF Len(ss) = 0 THEN ""
    ELSE IF Len(ss) = 1 THEN ss[1]
    ELSE ss[1] \o sep \o JoinWith(Tail(ss), sep)

RECURSIVE Flatten(_)
Flatten(seqs) == IF Len(seqs) = 0 THEN <<>> ELSE seqs[1] \o Flatten(Tail(seqs))

\* ------------------------------------------------------------- tools
\* tool call arguments: a JSON object with the keys the tools of the model read
Args(a, q, c) == [answer |-> a, query |-> q, code |-> c]

ArgsJson(a) ==
    "{" \o (IF a.answer = None THEN "" ELSE "\"answer\": \"" \o a.answer[1] \o "\"")
        \o (IF a.query = None THEN "" ELSE "\"query\": \"" \o a.query[1] \o "\"")
        \o (IF a.code = None THEN "" ELSE "\"code\": \"" \o a.code[1] \o "\"") \o "}"

ToolCall(id, name, arguments) == [id |-> id, name |-> name, arguments |-> arguments]

\* serde_json::to_string_pretty(&tool_call)
ToolCallJson(tc) ==
    "{\"id\": " \o (IF tc.id = None THEN "null" ELSE "\"" \o tc.id[1] \o "\"")
      \o ", \"type\": \"function\", \"function\": {\"name\": \"" \o tc.name
      \o "\", \"arguments\": " \o ArgsJson(tc.arguments) \o "}}"

\* serde_json::from_value::<T::Params>: a missing required field is an error
ParamsDeserialize(name, a) ==
    CASE name = "final_answer" -> a.answer # None
      [] name = "duckduckgo_search" -> a.query # None
      [] OTHER -> TRUE

\* Tool::forward of the two tools of the model; the search tool reaches the
\* network, which is down for the query "down"
ToolForward(name, a) ==
    CASE name = "final_answer" -> Ok(a.answer[1])
      [] name = "duckduckgo_search" ->
            IF a.query[1] = "down" THEN Err("error sending request")
            ELSE Ok("results for " \o a.query[1])
      [] OTHER -> Ok("Not implemented")

\* AnyTool::forward_json
ForwardJson(name, a) ==
    IF ~ParamsDeserialize(name, a)
    THEN Err(Parsing("Error when executing tool with arguments: " \o ArgsJson(a)))
    ELSE LET r == ToolForward(name, a)
         IN  IF r.ok THEN r ELSE Err(Execution(r.err))

\* ToolGroup::call for Vec<Box<dyn AnyTool>>: the first tool of that name
ToolGroupCall(reg, fc) ==
    IF \E i \in 1..Len(reg) : reg[i] = fc.name
    THEN ForwardJson(fc.name, fc.arguments)
    ELSE Err(Execution("Tool not found"))

\* MultiStepAgent::new pushes final_answer after the caller's tools
NewTools(caller) == caller \o <<"final_answer">>

\* the tool lists a caller hands to the constructor: the search tool alone,
\* and the search tool with a FinalAnswerTool of the caller's own
CallerTools == {<<"duckduckgo_search">>, <<"duckduckgo_search", "final_answer">>}

SystemPrompt(k) == IF k = "fc" THEN "TOOL_CALLING_SYSTEM_PROMPT" ELSE "CODE_SYSTEM_PROMPT"

\* str::trim().is_empty() on the texts of the model
IsBlank(s) == s \in {"", " ", "\n"}

\* chars().take(30000)
Take30000(s) == IF Len(s) <= 30000 THEN s ELSE "<first 30000 chars>"

\* ------------------------------------------------------------- memory projection
RetryHint ==
    "\nNow let's retry: take care not to repeat previous errors! If you have retried several times, try a completely different approach.\n"

\* the 'Call id' messages: observations[i] is indexed by the position of the
\* tool call (an index past the end is a panic)
CallIdMessages(tool_calls, observations) ==
    [i \in 1..Len(tool_calls) |->
        Message("User", "Call id: "
            \o (IF tool_calls[i].id = None THEN "" ELSE tool_calls[i].id[1])
            \o "\nObservation: " \o observations[i])]

\* the User message made of the error of a step (agents.rs 266-275)
ErrorMessageWithoutText(error) == Message("User", "Error: " \o RetryHint)
ErrorMessage(error) == Message("User", "Error: " \o error.msg \o RetryHint)

ActionStepMessages(s, summary_mode) ==
    (IF s.llm_output # None /\ ~summary_mode
        THEN <<Message("Assistant", s.llm_output[1])>> ELSE <<>>)
    \o (IF s.tool_call # None
        THEN [i \in 1..Len(s.tool_call[1]) |->
                 Message("Assistant", ToolCallJson(s.tool_call[1][i]))]
        ELSE <<>>)
    \o (IF s.tool_call # None /\ s.observations # None
        THEN CallIdMessages(s.tool_call[1], s.observations[1])
        ELSE IF s.observations # None
        THEN <<Message("User", "Observations: " \o JoinWith(s.observations[1], "\n"))>>
        ELSE <<>>)
    \o (IF s.error # None
        THEN <<ErrorMessage(s.error[1])>>
        ELSE <<>>)

StepMessagesWithFacts(log, summary_mode) ==
    CASE log.tag = "ToolCall" -> <<>>
      [] log.tag = "PlanningStep" ->
            <<Message("Assistant", "[PLAN]:\n" \o log.plan),
              Message("Assistant", "[FACTS]:\n" \o log.facts)>>
      [] log.tag = "TaskStep" -> <<Message("User", "New Task: " \o log.text)>>
      [] log.tag = "SystemPromptStep" -> <<Message("System", log.text)>>
      [] log.tag = "ActionStep" -> ActionStepMessages(log, summary_mode)
StepMessages(log, summary_mode) ==
    CASE log.tag = "ToolCall" -> <<>>
      [] log.tag = "PlanningStep" ->
            <<Message("Assistant", "[PLAN]:\n" \o log.plan)>>
            \o (IF ~summary_mode
                THEN <<Message("Assistant", "[FACTS]:\n" \o log.facts)>> ELSE <<>>)
      [] log.tag = "TaskStep" -> <<Message("User", "New Task: " \o log.text)>>
      [] log.tag = "SystemPromptStep" -> <<Message("System", log.text)>>
      [] log.tag = "ActionStep" -> ActionStepMessages(log, summary_mode)

\* Agent::write_inner_memory_from_logs
WriteInnerMemoryFromLogs(ls, summary_mode) ==
    Flatten([i \in 1..Len(ls) |-> StepMessages(ls[i], summary_mode)])

\* ------------------------------------------------------------- Model Gateway
\* What Model::run gives back: Err(Generation), or a response, of which
\* get_response reads the text and get_tools_used the tool calls; either can
\* fail (a response with no choice fails both, models/openai.rs 84-108). A
\* text is a prose part followed by fenced code blocks, each holding the
\* source of one script.
RunFailed == [run |-> "err"]
Text(prose, blocks) == [prose |-> prose, blocks |-> blocks]
Response(text, tcs) == [run |-> "ok", text |-> text, tool_calls |-> tcs]
NoMessage == Err(Generation("No message returned from OpenAI"))
NoChoices == Response(NoMessage, NoMessage)

\* ModelResponse::get_response
GetResponse(resp) == resp.text

\* ModelResponse::get_tools_used
GetToolsUsed(resp) == resp.tool_calls

\* the tool calls the model of the function-calling agent answers with
TcSearch == ToolCall(Some("c1"), "duckduckgo_search", Args(None, Some("rust"), None))
TcSearchDown == ToolCall(Some("c2"), "duckduckgo_search", Args(None, Some("down"), None))
TcSearchBadArgs == ToolCall(Some("c3"), "duckduckgo_search", Args(None, None, None))
TcUnknown == ToolCall(Some("c4"), "web_browser", Args(None, Some("rust"), None))
TcFinal == ToolCall(Some("c5"), "final_answer", Args(Some("42"), None, None))
TcFinalBadArgs == ToolCall(Some("c6"), "final_answer", Args(None, Some("42"), None))

ToolCallLists ==
    { <<>>, <<TcSearch>>, <<TcSearchDown>>, <<TcSearchBadArgs>>, <<TcUnknown>>,
      <<TcFinal>>, <<TcFinalBadArgs>>, <<TcUnknown, TcSearch>>,
      <<TcSearch, TcFinal>>, <<TcFinal, TcSearch>>, <<TcUnknown, TcFinal>> }

FcResponses ==
    {RunFailed, NoChoices, Response(NoMessage, Ok(<<>>))}
    \cup {Response(Ok(Text("", <<>>)), Ok(tcs)) : tcs \in ToolCallLists}
    \cup {Response(Ok(Text("Paris", <<>>)), Ok(tcs)) :
             tcs \in {<<>>, <<TcSearch>>, <<TcUnknown>>}}
    \cup {Response(Ok(Text(" ", <<>>)), Ok(<<>>))}

\* ------------------------------------------------------------- script interpreter
\* CustomConstant
StrV(s) == [t |-> "Str", s |-> s]
IntV(i) == [t |-> "Int", i |-> i]
TupleV(items) == [t |-> "Tuple", items |-> items]
\* a Float is kept as the whole number it holds: the operators of the model
\* (+, -, *) never leave the whole numbers
FloatV(f) == [t |-> "Float", f |-> f]
BoolV(b) == [t |-> "Bool", b |-> b]
\* a PyObj is a reference to an object of the embedded Python: the object it
\* holds carries the identity (a field id) it got when it was first kept
PyObjV(obj) == [t |-> "PyObj", obj |-> obj]

\* the objects of the embedded Python the values are handed to
PyInt(i) == [py |-> "int", i |-> i]
PyFloat(f) == [py |-> "float", f |-> f]
PyStr(s) == [py |-> "str", s |-> s]
PyBool(b) == [py |-> "bool", b |-> b]
PyList(items) == [py |-> "list", items |-> items]
PyNone == [py |-> "None"]
\* range(stop): a sequence of the integers from 0 up to stop - 1
PyRange(stop) ==
    [py |-> "range", stop |-> stop,
     items |-> [i \in 1..(IF stop > 0 THEN stop ELSE 0) |-> [py |-> "int", i |-> i - 1]]]

\* IntoPy for CustomConstant: a Tuple becomes a Python list
RECURSIVE IntoPy(_)
IntoPy(v) ==
    CASE v.t = "Int" -> PyInt(v.i)
      [] v.t = "Float" -> PyFloat(v.f)
      [] v.t = "Str" -> PyStr(v.s)
      [] v.t = "Bool" -> PyBool(v.b)
      [] v.t = "Tuple" -> PyList([i \in 1..Len(v.items) |-> IntoPy(v.items[i])])
      [] v.t = "PyObj" -> v.obj

\* the number a Python int, float or bool is
PyNumber(obj) ==
    CASE obj.py = "int" -> obj.i
      [] obj.py = "float" -> obj.f
      [] obj.py = "bool" -> IF obj.b THEN 1 ELSE 0

\* extract_constant_from_pyobject: the object is probed as f64 (which a Python
\* int and bool convert to), String, bool, i64, Vec<String>, Vec<i64>,
\* Vec<f64>, in that order; what none of them takes stays a Python object
ExtractConstantFromPyObject(obj) ==
    IF obj.py \in {"float", "int", "bool"} THEN FloatV(PyNumber(obj))
    ELSE IF obj.py = "str" THEN StrV(obj.s)
    ELSE IF obj.py \notin {"list", "range"} THEN PyObjV(obj)
    ELSE IF \A i \in 1..Len(obj.items) : obj.items[i].py = "str"
    THEN TupleV([i \in 1..Len(obj.items) |-> StrV(obj.items[i].s)])
    ELSE IF \A i \in 1..Len(obj.items) : obj.items[i].py \in {"int", "bool"}
    THEN TupleV([i \in 1..Len(obj.items) |-> IntV(PyNumber(obj.items[i]))])
    ELSE IF \A i \in 1..Len(obj.items) : obj.items[i].py \in {"int", "bool", "float"}
    THEN TupleV([i \in 1..Len(obj.items) |-> FloatV(PyNumber(obj.items[i]))])
    ELSE PyObjV(obj)

\* the characters of the strings the scripts of the model index
Chars(s) ==
    CASE s = "" -> <<>>
      [] s = "abc" -> <<"a", "b", "c">>
      [] s \in {"a", "b", "c", "p", "q", "r"} -> <<s>>

\* the items of a Python list or str
PyItems(obj) ==
    IF obj.py = "str" THEN [i \in 1..Len(Chars(obj.s)) |-> PyStr(Chars(obj.s)[i])]
    ELSE obj.items

\* PyAny::iter: the items of a list or a range, the characters of a str
PyIter(obj) ==
    IF obj.py \in {"list", "str", "range"} THEN Ok(PyItems(obj))
    ELSE Err("TypeError: '" \o obj.py \o "' object is not iterable")

\* list.insert(index, item): an index beyond either end is moved to that end
PyInsert(items, index, item) ==
    LET n == Len(items)
        at == IF index < 0 THEN (IF index + n < 0 THEN 0 ELSE index + n)
              ELSE IF index > n THEN n ELSE index
    IN  SubSeq(items, 1, at) \o <<item>> \o SubSeq(items, at + 1, n)

\* getattr(obj, name)(*args) for the three list methods that change the list
\* in place: the object after the call and what the call returned (None)
PyCallMethod(obj, name, args) ==
    IF obj.py # "list"
    THEN Err("AttributeError: '" \o obj.py \o "' object has no attribute '" \o name \o "'")
    ELSE CASE name = "append" ->
                IF Len(args) # 1
                THEN Err("TypeError: list.append() takes exactly one argument ("
                         \o ToString(Len(args)) \o " given)")
                ELSE Ok([obj |-> [obj EXCEPT !.items = Append(obj.items, args[1])],
                         result |-> PyNone])
           [] name = "extend" ->
                IF Len(args) # 1
                THEN Err("TypeError: list.extend() takes exactly one argument ("
                         \o ToString(Len(args)) \o " given)")
                ELSE IF ~PyIter(args[1]).ok THEN Err(PyIter(args[1]).err)
                ELSE Ok([obj |-> [obj EXCEPT !.items = obj.items \o PyIter(args[1]).val],
                         result |-> PyNone])
           [] name = "insert" ->
                IF Len(args) # 2
                THEN Err("TypeError: insert expected 2 arguments, got " \o ToString(Len(args)))
                ELSE IF args[1].py \notin {"int", "bool"}
                THEN Err("TypeError: '" \o args[1].py
                         \o "' object cannot be interpreted as an integer")
                ELSE Ok([obj |-> [obj EXCEPT !.items =
                                     PyInsert(obj.items, PyNumber(args[1]), args[2])],
                         result |-> PyNone])

\* PyAny::get_item(index) with an integer index: Python's indexing of a list
\* or a str, an index below zero counting from the end
PyGetItem(obj, index) ==
    IF obj.py \notin {"list", "str", "range"}
    THEN Err("TypeError: '" \o obj.py \o "' object is not subscriptable")
    ELSE LET n == Len(PyItems(obj))
         IN  IF 0 <= index /\ index < n THEN Ok(PyItems(obj)[index + 1])
             ELSE IF 0 - n <= index /\ index < 0 THEN Ok(PyItems(obj)[n + index + 1])
             ELSE Err("IndexError: "
                      \o (CASE obj.py = "list" -> "list"
                            [] obj.py = "str" -> "string"
                            [] obj.py = "range" -> "range object")
                      \o " index out of range")

\* InterpreterError and its Display
SyntaxError(m) == [kind |-> "SyntaxError", msg |-> m]
RuntimeError(m) == [kind |-> "RuntimeError", msg |-> m]
FinalAnswer(m) == [kind |-> "FinalAnswer", msg |-> m]
Panic(m) == [kind |-> "panic", msg |-> m]

InterpreterErrorToString(e) ==
    CASE e.kind = "SyntaxError" -> "Syntax Error: " \o e.msg
      [] e.kind = "RuntimeError" -> "Runtime Error: " \o e.msg
      [] e.kind = "FinalAnswer" -> "Final Answer: " \o e.msg
      [] OTHER -> e.msg

\* str() and repr() of a Python object
RECURSIVE PyRepr(_)
PyRepr(obj) ==
    CASE obj.py = "int" -> ToString(obj.i)
      [] obj.py = "float" -> ToString(obj.f) \o ".0"
      [] obj.py = "str" -> "'" \o obj.s \o "'"
      [] obj.py = "bool" -> IF obj.b THEN "True" ELSE "False"
      [] obj.py = "None" -> "None"
      [] obj.py = "range" -> "range(0, " \o ToString(obj.stop) \o ")"
      [] obj.py = "list" ->
            "[" \o JoinWith([i \in 1..Len(obj.items) |-> PyRepr(obj.items[i])], ", ") \o "]"

PyStrOf(obj) == IF obj.py = "str" THEN obj.s ELSE PyRepr(obj)

\* CustomConstant::str
RECURSIVE ValueStr(_)
ValueStr(v) ==
    CASE v.t = "Str" -> v.s
      [] v.t = "Int" -> ToString(v.i)
      [] v.t = "Float" -> ToString(v.f)
      [] v.t = "Bool" -> IF v.b THEN "true" ELSE "false"
      [] v.t = "PyObj" -> PyStrOf(v.obj)
      [] v.t = "Tuple" ->
            "[" \o JoinWith([i \in 1..Len(v.items) |-> ValueStr(v.items[i])], ", ") \o "]"

\* what a Box<dyn Any> of the state holds: a CustomConstant or the Vec<String>
\* of the print log
AnyConstant(v) == [any |-> "CustomConstant", v |-> v]
AnyLogs(l) == [any |-> "VecString", l |-> l]

\* the state is a HashMap<String, Box<dyn Any>>: a function on the bound names
\* HashMap::new()
EmptyState == [k \in {} |-> None]
\* HashMap::get
Get(st, k) == IF k \in DOMAIN st THEN Some(st[k]) ELSE None
\* HashMap::insert
Insert(st, k, boxed) == [j \in DOMAIN st \cup {k} |-> IF j = k THEN boxed ELSE st[j]]

RECURSIVE InsertAll(_, _, _)
InsertAll(st, names, values) ==
    IF Len(names) = 0 THEN st
    ELSE InsertAll(Insert(st, names[1].id, [any |-> "CustomConstant", v |-> values[1]]),
                   Tail(names), Tail(values))

\* the AST of rustpython_parser, the node kinds the scripts of the model use
Constant(v) == [e |-> "Constant", value |-> v]
Name(id) == [e |-> "Name", id |-> id]
List(elts) == [e |-> "List", elts |-> elts]
TupleExpr(elts) == [e |-> "Tuple", elts |-> elts]
Keyword(arg, value) == [arg |-> arg, value |-> value]
Call(func, args, keywords) ==
    [e |-> "Call", func |-> func, args |-> args, keywords |-> keywords]
BinOp(left, op, right) == [e |-> "BinOp", left |-> left, op |-> op, right |-> right]
UnaryOp(op, operand) == [e |-> "UnaryOp", op |-> op, operand |-> operand]
Compare(left, op, right) == [e |-> "Compare", left |-> left, op |-> op, right |-> right]
Attribute(value, attr) == [e |-> "Attribute", value |-> value, attr |-> attr]
Subscript(value, slice) == [e |-> "Subscript", value |-> value, slice |-> slice]
ExprStmt(value) == [s |-> "Expr", value |-> value]
Assign(targets, value) == [s |-> "Assign", targets |-> targets, value |-> value]
For(target, iter, body) == [s |-> "For", target |-> target, iter |-> iter, body |-> body]
While(test) == [s |-> "While", test |-> test]

\* every evaluation yields the state it leaves and a Result
Eval(st, r) == [state |-> st, r |-> r]

\* the static builtins (get_base_python_tools) the scripts of the model call
StaticTools == {"str", "range"}

\* a static builtin: the host evaluates builtins.<func>(arg0, ...) and the
\* result is probed as float, list of strings, string, bool, int in that
\* order; a range is none of them and stays a Python object
StaticToolCall(func, args) ==
    CASE func = "str" /\ Len(args) = 1 /\ args[1].t = "Str" -> Ok(StrV(args[1].s))
      [] func = "str" /\ Len(args) = 0 -> Ok(StrV(""))
      [] func = "range" /\ Len(args) = 1 /\ args[1].t = "Int" ->
            Ok(PyObjV(PyRange(args[1].i)))

\* the keyword map: HashMap<String, String>, a later keyword of a name wins
KwGet(kws, name) ==
    LET hits == {i \in 1..Len(kws) : kws[i].arg = name}
    IN  IF hits = {} THEN None
        ELSE Some(kws[CHOOSE i \in hits : \A j \in hits : j <= i].value)

\* the closure setup_custom_tools builds for a tool: positional arguments take
\* the tool's parameter names in order, keywords override, the payload goes to
\* forward_json and an error comes back as the string "Error: ..."
CustomToolCall(name, args, kws) ==
    LET param == IF name = "final_answer" THEN "answer" ELSE "query"
        positional == IF Len(args) >= 1 THEN Some(args[1].s) ELSE None
        pick(key) ==
            IF KwGet(kws, key) # None THEN KwGet(kws, key)
            ELSE IF param = key THEN positional ELSE None
        r == ForwardJson(name, Args(pick("answer"), pick("query"), None))
    IN  IF Len(args) > 1 THEN Err(Panic("index out of bounds"))
        ELSE IF Len(args) = 1 /\ args[1].t # "Str"
        THEN Err(Panic("called Option::unwrap() on a None value"))
        ELSE IF r.ok THEN Ok(StrV(r.val)) ELSE Ok(StrV("Error: " \o r.err.msg))

\* the print branch of a call (local_python_interpreter.rs 615-644)
PrintCall(st, args) ==
    LET strs == [i \in 1..Len(args) |-> ValueStr(args[i])]
        joined == JoinWith(strs, " ")
    IN  IF Get(st, "print_logs") # None
        THEN IF st["print_logs"].any = "VecString"
             THEN Eval(Insert(st, "print_logs",
                              AnyLogs(Append(st["print_logs"].l, joined))),
                       Ok(StrV(joined)))
             ELSE Eval(st, Err(RuntimeError("print_logs is not a list")))
        ELSE Eval(Insert(st, "print_logs", AnyLogs(strs)), Ok(StrV(joined)))

RECURSIVE EvaluateExpr(_, _, _), EvaluateExprs(_, _, _, _), EvaluateKeywords(_, _, _, _)
RECURSIVE EvaluateStmt(_, _, _), EvaluateStmts(_, _, _, _), ForLoop(_, _, _, _, _, _)
RECURSIVE AssignTargets(_, _, _, _)

\* .map(evaluate_expr).collect::<Result<Vec<_>, _>>(): left to right, stopping
\* at the first error; h is the evaluation of the first expression
ExprsRest(h, exprs, reg, acc) ==
    IF ~h.r.ok THEN h
    ELSE EvaluateExprs(Tail(exprs), h.state, reg, Append(acc, h.r.val))

EvaluateExprs(exprs, st, reg, acc) ==
    IF Len(exprs) = 0 THEN Eval(st, Ok(acc))
    ELSE ExprsRest(EvaluateExpr(exprs[1], st, reg), exprs, reg, acc)

\* the keywords of a call, each value evaluated and turned into its string
KeywordsRest(h, kws, reg, acc) ==
    IF ~h.r.ok THEN h
    ELSE EvaluateKeywords(Tail(kws), h.state, reg,
             Append(acc, Keyword(kws[1].arg, ValueStr(h.r.val))))

EvaluateKeywords(kws, st, reg, acc) ==
    IF Len(kws) = 0 THEN Eval(st, Ok(acc))
    ELSE KeywordsRest(EvaluateExpr(kws[1].value, st, reg), kws, reg, acc)

\* the final_answer branch of a call (local_python_interpreter.rs 603-614):
\* the keyword answer if there is one, else the arguments joined by a space
FinalAnswerAsValue(args, kws) ==
    Ok(StrV(IF KwGet(kws, "answer") # None THEN KwGet(kws, "answer")[1]
            ELSE JoinWith([i \in 1..Len(args) |-> ValueStr(args[i])], " ")))
FinalAnswerCall(args, kws) ==
    IF KwGet(kws, "answer") # None
    THEN Err(FinalAnswer(KwGet(kws, "answer")[1]))
    ELSE Err(FinalAnswer(JoinWith([i \in 1..Len(args) |-> ValueStr(args[i])], " ")))

\* a call of a bare name once its arguments and keywords are evaluated
\* (local_python_interpreter.rs 603-660)
CallNamedToolsFirst(func, args, ks, reg) ==
    IF ~ks.r.ok THEN ks
    ELSE IF \E i \in 1..Len(reg) : reg[i] = func
    THEN Eval(ks.state, CustomToolCall(func, args, ks.r.val))
    ELSE IF func = "final_answer"
    THEN Eval(ks.state, FinalAnswerCall(args, ks.r.val))
    ELSE IF func = "print" THEN PrintCall(ks.state, args)
    ELSE IF func \in StaticTools
    THEN Eval(ks.state, StaticToolCall(func, args))
    ELSE Eval(ks.state, Err(RuntimeError("Function '" \o func \o "' not found")))
CallNamed(func, args, ks, reg) ==
    IF ~ks.r.ok THEN ks
    ELSE IF func = "final_answer"
    THEN Eval(ks.state, FinalAnswerCall(args, ks.r.val))
    ELSE IF func = "print" THEN PrintCall(ks.state, args)
    ELSE IF func \in StaticTools
    THEN Eval(ks.state, StaticToolCall(func, args))
    ELSE IF \E i \in 1..Len(reg) : reg[i] = func
    THEN Eval(ks.state, CustomToolCall(func, args, ks.r.val))
    ELSE Eval(ks.state, Err(RuntimeError("Function '" \o func \o "' not found")))

\* the identities of the Python objects the bindings of a state refer to
HeldIds(st) ==
    {st[n].v.obj.id : n \in {m \in DOMAIN st :
        st[m].any = "CustomConstant" /\ st[m].v.t = "PyObj" /\ "id" \in DOMAIN st[m].v.obj}}

\* an identity no held object has
FreshId(st) == IF HeldIds(st) = {} THEN 1 ELSE 1 + CHOOSE i \in HeldIds(st) :
                                                     \A j \in HeldIds(st) : j <= i

\* a value converted back from Python: an object that stays a Python object
\* and was made for this call (the list a Tuple was converted to) is new
Kept(v, st) ==
    IF v.t = "PyObj" /\ "id" \notin DOMAIN v.obj
    THEN PyObjV(v.obj @@ [id |-> FreshId(st)])
    ELSE v

\* the state once a Python object was changed in place: every binding that
\* refers to that object (PyObject::clone copies the reference) sees it
Mutate(st, obj) ==
    IF "id" \notin DOMAIN obj THEN st
    ELSE [n \in DOMAIN st |->
            IF st[n].any = "CustomConstant" /\ st[n].v.t = "PyObj"
               /\ "id" \in DOMAIN st[n].v.obj /\ st[n].v.obj.id = obj.id
            THEN AnyConstant(PyObjV(obj)) ELSE st[n]]

\* the list methods whose receiver is written back into its variable
RewritesReceiver(name) == name \in {"append", "extend", "insert"}

\* a method call once its receiver is evaluated (local_python_interpreter.rs
\* 552-585): the call is made in Python on the converted receiver; for the
\* in-place methods the receiver after the call is converted back, bound to
\* the receiver's name and returned
AttributeCallOn(obj, expr, args) ==
    IF ~obj.r.ok THEN obj
    ELSE LET called == PyCallMethod(IntoPy(obj.r.val), expr.func.attr,
                                    [i \in 1..Len(args) |-> IntoPy(args[i])])
             out == Kept(ExtractConstantFromPyObject(called.val.obj), obj.state)
         IN  IF ~called.ok THEN Eval(obj.state, Err(RuntimeError(called.err)))
             ELSE IF RewritesReceiver(expr.func.attr)
             THEN IF expr.func.value.e # "Name"
                  THEN Eval(Mutate(obj.state, called.val.obj), Err(Panic("Expected name")))
                  ELSE Eval(Insert(Mutate(obj.state, called.val.obj),
                                   expr.func.value.id, AnyConstant(out)),
                            Ok(out))
             ELSE Eval(Mutate(obj.state, called.val.obj),
                       Ok(ExtractConstantFromPyObject(called.val.result)))

\* a call once its positional arguments are evaluated
CallWithArgs(expr, as, reg) ==
    IF ~as.r.ok THEN as
    ELSE IF expr.func.e = "Attribute"
    THEN AttributeCallOn(EvaluateExpr(expr.func.value, as.state, reg), expr, as.r.val)
    ELSE IF expr.func.e # "Name"
    THEN Eval(as.state, Err(Panic("Expected function name")))
    ELSE CallNamed(expr.func.id, as.r.val,
                   EvaluateKeywords(expr.keywords, as.state, reg, <<>>), reg)

\* a list or tuple display once its elements are evaluated
Collected(es) == IF es.r.ok THEN Eval(es.state, Ok(TupleV(es.r.val))) ELSE es

\* String::repeat
RECURSIVE Repeat(_, _)
Repeat(s, n) == IF n <= 0 THEN "" ELSE s \o Repeat(s, n - 1)

\* a binary operator on its two operand values (local_python_interpreter.rs
\* 668-735), for the operators +, - and *: the string forms of + and * first,
\* then both operands as f64; a negative repeat count is cast to usize and
\* overflows the capacity
BinOpApply(op, l, r) ==
    IF op = "Add" /\ l.t = "Str" /\ r.t = "Str" THEN Ok(StrV(l.s \o r.s))
    ELSE IF op = "Add" /\ l.t = "Str" /\ r.t = "Int" THEN Ok(StrV(l.s \o ToString(r.i)))
    ELSE IF op = "Add" /\ l.t = "Int" /\ r.t = "Str" THEN Ok(StrV(ToString(l.i) \o r.s))
    ELSE IF op = "Mult" /\ l.t = "Str" /\ r.t = "Int"
    THEN IF r.i < 0 THEN Err(Panic("capacity overflow")) ELSE Ok(StrV(Repeat(l.s, r.i)))
    ELSE IF op = "Mult" /\ l.t = "Int" /\ r.t = "Str"
    THEN IF l.i < 0 THEN Err(Panic("capacity overflow")) ELSE Ok(StrV(Repeat(r.s, l.i)))
    ELSE IF l.t \notin {"Float", "Int"} \/ r.t \notin {"Float", "Int"}
    THEN Err(Panic("Expected float or int"))
    ELSE LET left_val == IF l.t = "Float" THEN l.f ELSE l.i
             right_val == IF r.t = "Float" THEN r.f ELSE r.i
         IN  CASE op = "Add" -> Ok(FloatV(left_val + right_val))
               [] op = "Sub" -> Ok(FloatV(left_val - right_val))
               [] op = "Mult" -> Ok(FloatV(left_val * right_val))

\* a binary operator once both operands are evaluated
BinOpBoth(l, r, op) ==
    IF ~r.r.ok THEN r ELSE Eval(r.state, BinOpApply(op, l, r.r.val))

\* a binary operator once its left operand is evaluated
BinOpRight(l, expr, reg) ==
    IF ~l.r.ok THEN l
    ELSE BinOpBoth(l.r.val, EvaluateExpr(expr.right, l.state, reg), expr.op)

\* a unary operator on its operand value (local_python_interpreter.rs 739-760)
UnaryOpApply(op, operand) ==
    CASE op = "USub" ->
            IF operand.t = "Float" THEN Ok(FloatV(0 - operand.f))
            ELSE IF operand.t = "Int" THEN Ok(IntV(0 - operand.i))
            ELSE Err(Panic("Expected float or int"))
      [] op = "UAdd" -> Ok(operand)
      [] op = "Not" ->
            IF operand.t = "Bool" THEN Ok(BoolV(~operand.b))
            ELSE Err(Panic("Expected boolean"))
      [] op = "Invert" ->
            IF operand.t = "Float" THEN Ok(FloatV(0 - operand.f))
            ELSE Err(Panic("Expected float"))

\* a unary operator once its operand is evaluated
UnaryOpOn(o, op) ==
    IF ~o.r.ok THEN o ELSE Eval(o.state, UnaryOpApply(op, o.r.val))

\* a subscript on the values of its two parts (local_python_interpreter.rs
\* 816-923) where the slice part is not a slice expression: an integer index
\* is looked up in Python; a string key is for dictionaries, which the model
\* has none of
SubscriptApply(value, slice) ==
    IF slice.t = "Int"
    THEN IF PyGetItem(IntoPy(value), slice.i).ok
         THEN Ok(ExtractConstantFromPyObject(PyGetItem(IntoPy(value), slice.i).val))
         ELSE Err(RuntimeError(PyGetItem(IntoPy(value), slice.i).err))
    ELSE Err(RuntimeError("Invalid slice"))

\* a subscript once both parts are evaluated
SubscriptBoth(value, sl) ==
    IF ~sl.r.ok THEN sl ELSE Eval(sl.state, SubscriptApply(value, sl.r.val))

\* a subscript once the value being subscripted is evaluated
SubscriptSlice(v, expr, reg) ==
    IF ~v.r.ok THEN v
    ELSE SubscriptBoth(v.r.val, EvaluateExpr(expr.slice, v.state, reg))

\* evaluate_expr
EvaluateExpr(expr, st, reg) ==
    CASE expr.e = "Constant" -> Eval(st, Ok(expr.value))
      [] expr.e = "Name" ->
            IF Get(st, expr.id) # None
            THEN IF st[expr.id].any = "CustomConstant"
                 THEN Eval(st, Ok(st[expr.id].v))
                 ELSE Eval(st, Err(RuntimeError("Error in downcasting constant " \o expr.id)))
            ELSE Eval(st, Err(RuntimeError(
                     "Variable '" \o expr.id \o "' used before assignment")))
      [] expr.e \in {"List", "Tuple"} ->
            Collected(EvaluateExprs(expr.elts, st, reg, <<>>))
      [] expr.e = "Call" ->
            CallWithArgs(expr, EvaluateExprs(expr.args, st, reg, <<>>), reg)
      [] expr.e = "BinOp" -> BinOpRight(EvaluateExpr(expr.left, st, reg), expr, reg)
      [] expr.e = "UnaryOp" -> UnaryOpOn(EvaluateExpr(expr.operand, st, reg), expr.op)
      [] expr.e = "Subscript" -> SubscriptSlice(EvaluateExpr(expr.value, st, reg), expr, reg)
      [] OTHER -> Eval(st, Err(Panic("Unsupported expression")))

\* one target of an assignment once the value is evaluated for it
AssignTarget(v, targets, value, reg) ==
    IF ~v.r.ok THEN v
    ELSE IF targets[1].e = "Name"
    THEN AssignTargets(Tail(targets), value,
             Insert(v.state, targets[1].id, AnyConstant(v.r.val)), reg)
    ELSE IF v.r.val.t # "Tuple"
    THEN Eval(v.state, Err(RuntimeError(
             "Tuple unpacking failed. Expected values of type tuple")))
    ELSE IF Len(targets[1].elts) # Len(v.r.val.items)
    THEN Eval(v.state, Err(RuntimeError(
             "Tuple unpacking failed. Expected " \o ToString(Len(targets[1].elts))
             \o " values, got " \o ToString(Len(v.r.val.items)))))
    ELSE IF \E i \in 1..Len(targets[1].elts) : targets[1].elts[i].e # "Name"
    THEN Eval(v.state, Err(Panic("Expected string")))
    ELSE AssignTargets(Tail(targets), value,
             InsertAll(v.state, targets[1].elts, v.r.val.items), reg)

\* the targets of an assignment, in order; the value is evaluated per target
AssignTargets(targets, value, st, reg) ==
    IF Len(targets) = 0 THEN Eval(st, Ok(StrV("")))
    ELSE IF targets[1].e \in {"Name", "Tuple"}
    THEN AssignTarget(EvaluateExpr(value, st, reg), targets, value, reg)
    ELSE Eval(st, Err(Panic("Expected string")))

\* the rest of a for loop once the body ran for the current item; the other
\* loop leaves after its first iteration
ForRestLeaves(b, target_name, values, body, reg) == b
ForRest(b, target_name, values, body, reg) ==
    IF ~b.r.ok THEN b
    ELSE ForLoop(target_name, Tail(values), body, b.state, reg, b.r.val)

\* the iterations of a for loop over the values left, for_loop_result being
\* the value of the last body statement so far
ForLoop(target_name, values, body, st, reg, for_loop_result) ==
    IF Len(values) = 0 THEN Eval(st, Ok(for_loop_result))
    ELSE ForRest(EvaluateStmts(body, Insert(st, target_name, AnyConstant(values[1])),
                               reg, for_loop_result),
                 target_name, values, body, reg)

\* the values a for loop runs over when its iterable is a Python object
\* (local_python_interpreter.rs 344-365): each item probed as i64, f64, String
IterValues(obj) ==
    IF ~PyIter(obj).ok THEN Err(RuntimeError(PyIter(obj).err))
    ELSE IF \E i \in 1..Len(PyIter(obj).val) : PyIter(obj).val[i].py = "list"
    THEN Err(RuntimeError("Unsupported type in iterator"))
    ELSE Ok([i \in 1..Len(PyIter(obj).val) |->
                LET item == PyIter(obj).val[i]
                IN  IF item.py \in {"int", "bool"} THEN IntV(PyNumber(item))
                    ELSE IF item.py = "float" THEN FloatV(item.f)
                    ELSE StrV(item.s)])

\* a for statement once its iterable is evaluated
ForOver(iter, node, reg) ==
    IF ~iter.r.ok THEN iter
    ELSE IF iter.r.val.t = "PyObj"
    THEN IF ~IterValues(iter.r.val.obj).ok
         THEN Eval(iter.state, IterValues(iter.r.val.obj))
         ELSE IF node.target.e # "Name"
         THEN Eval(iter.state, Err(RuntimeError("Expected name as loop target")))
         ELSE ForLoop(node.target.id, IterValues(iter.r.val.obj).val, node.body,
                      iter.state, reg, StrV(""))
    ELSE IF iter.r.val.t # "Tuple"
    THEN Eval(iter.state, Err(RuntimeError("Expected iterable")))
    ELSE IF node.target.e # "Name"
    THEN Eval(iter.state, Err(RuntimeError("Expected name as loop target")))
    ELSE ForLoop(node.target.id, iter.r.val.items, node.body, iter.state, reg, StrV(""))

\* evaluate_stmt
EvaluateStmt(node, st, reg) ==
    CASE node.s = "Expr" -> EvaluateExpr(node.value, st, reg)
      [] node.s = "For" -> ForOver(EvaluateExpr(node.iter, st, reg), node, reg)
      [] node.s = "Assign" -> AssignTargets(node.targets, node.value, st, reg)
      [] OTHER -> Eval(st, Err(RuntimeError("Unsupported statement")))

\* the rest of a statement sequence once its first statement is evaluated
StmtsRest(h, stmts, reg) ==
    IF ~h.r.ok THEN h
    ELSE EvaluateStmts(Tail(stmts), h.state, reg, h.r.val)

\* a statement sequence: each statement's value replaces result, the first
\* error ends it (evaluate_ast, and the body of a for loop)
EvaluateStmts(stmts, st, reg, result) ==
    IF Len(stmts) = 0 THEN Eval(st, Ok(result))
    ELSE StmtsRest(EvaluateStmt(stmts[1], st, reg), stmts, reg)

\* evaluate_ast
EvaluateAst(ast, st, reg) == EvaluateStmts(ast, st, reg, StrV(""))

\* ------------------------------------------------------------- scripts
\* the sequences the subscript scripts index: a list of strings, a string and
\* a list of integers, each of length 3
SeqIds == 0..2
SeqSrc(q) ==
    CASE q = 0 -> "['p', 'q', 'r']"
      [] q = 1 -> "'abc'"
      [] q = 2 -> "[1, 2, 3]"
SeqExpr(q) ==
    CASE q = 0 -> List(<<Constant(StrV("p")), Constant(StrV("q")), Constant(StrV("r"))>>)
      [] q = 1 -> Constant(StrV("abc"))
      [] q = 2 -> List(<<Constant(IntV(1)), Constant(IntV(2)), Constant(IntV(3))>>)

\* the indexes tried on them, from below -n to above n - 1
Indexes == (0 - 4)..4

\* an integer literal as the parser hands it over: a negative one is the
\* unary minus of a constant
IndexExpr(i) ==
    IF i < 0 THEN UnaryOp("USub", Constant(IntV(0 - i))) ELSE Constant(IntV(i))

\* the scripts x = SEQ[i], numbered from 100: 9 indexes for each sequence
SubscriptIds == {100 + 9 * q + (i + 4) : q \in SeqIds, i \in Indexes}
SeqIdOf(k) == (k - 100) \div 9
IndexOf(k) == ((k - 100) % 9) - 4
SubscriptScript(k) ==
    [src |-> "x = " \o SeqSrc(SeqIdOf(k)) \o "[" \o ToString(IndexOf(k)) \o "]",
     ast |-> Some(<<Assign(<<Name("x")>>,
                           Subscript(SeqExpr(SeqIdOf(k)), IndexExpr(IndexOf(k))))>>)]

\* the scripts the model of the code agent writes: the source text and what
\* ast::Suite::parse makes of it (None: the parser rejects it)
Script(k) ==
    CASE k = 1 -> [src |-> "final_answer(answer='Hello, world!')",
                   ast |-> Some(<<ExprStmt(Call(Name("final_answer"), <<>>,
                               <<Keyword("answer", Constant(StrV("Hello, world!")))>>))>>)]
      [] k = 2 -> [src |-> "x = 'a'\nfinal_answer(answer=x)\nx = 'b'\nprint(x)",
                   ast |-> Some(<<Assign(<<Name("x")>>, Constant(StrV("a"))),
                                  ExprStmt(Call(Name("final_answer"), <<>>,
                                      <<Keyword("answer", Name("x"))>>)),
                                  Assign(<<Name("x")>>, Constant(StrV("b"))),
                                  ExprStmt(Call(Name("print"), <<Name("x")>>, <<>>))>>)]
      [] k = 3 -> [src |-> "for item in ['p', 'q']:\n    final_answer(answer=item)\n    y = item\ny = 'end'",
                   ast |-> Some(<<For(Name("item"),
                                      List(<<Constant(StrV("p")), Constant(StrV("q"))>>),
                                      <<ExprStmt(Call(Name("final_answer"), <<>>,
                                            <<Keyword("answer", Name("item"))>>)),
                                        Assign(<<Name("y")>>, Name("item"))>>),
                                  Assign(<<Name("y")>>, Constant(StrV("end")))>>)]
      [] k = 4 -> [src |-> "print('hi')",
                   ast |-> Some(<<ExprStmt(Call(Name("print"),
                                      <<Constant(StrV("hi"))>>, <<>>))>>)]
      [] k = 5 -> [src |-> "x = 'v'",
                   ast |-> Some(<<Assign(<<Name("x")>>, Constant(StrV("v")))>>)]
      [] k = 6 -> [src |-> "y = 'w'\nprint(z)",
                   ast |-> Some(<<Assign(<<Name("y")>>, Constant(StrV("w"))),
                                  ExprStmt(Call(Name("print"), <<Name("z")>>, <<>>))>>)]
      [] k = 7 -> [src |-> "x = (", ast |-> None]
      [] k = 8 -> [src |-> "x",
                   ast |-> Some(<<ExprStmt(Name("x"))>>)]
      [] k = 9 -> [src |-> "y = 'w'\nx = 'a' - 1",
                   ast |-> Some(<<Assign(<<Name("y")>>, Constant(StrV("w"))),
                                  Assign(<<Name("x")>>,
                                      BinOp(Constant(StrV("a")), "Sub",
                                            Constant(IntV(1))))>>)]
      [] k = 10 -> [src |-> "-'a'",
                    ast |-> Some(<<ExprStmt(UnaryOp("USub", Constant(StrV("a"))))>>)]
      [] k = 11 -> [src |-> "1 < 2",
                    ast |-> Some(<<ExprStmt(Compare(Constant(IntV(1)), "Lt",
                                                    Constant(IntV(2))))>>)]
      [] k = 12 -> [src |-> "n = 2 + 1\nprint('ab' * 2, n - 4)",
                    ast |-> Some(<<Assign(<<Name("n")>>,
                                      BinOp(Constant(IntV(2)), "Add", Constant(IntV(1)))),
                                   ExprStmt(Call(Name("print"),
                                      <<BinOp(Constant(StrV("ab")), "Mult",
                                              Constant(IntV(2))),
                                        BinOp(Name("n"), "Sub", Constant(IntV(4)))>>,
                                      <<>>))>>)]
      [] k = 13 -> [src |-> "x = 'v'\nprint(duckduckgo_search(query='rust'))\ny = (",
                    ast |-> None]
      [] k = 14 -> [src |-> "x = 'v'\nprint(duckduckgo_search(query='rust'))",
                    ast |-> Some(<<Assign(<<Name("x")>>, Constant(StrV("v"))),
                                   ExprStmt(Call(Name("print"),
                                      <<Call(Name("duckduckgo_search"), <<>>,
                                             <<Keyword("query", Constant(StrV("rust")))>>)>>,
                                      <<>>))>>)]
      [] k = 15 -> [src |-> "print()",
                    ast |-> Some(<<ExprStmt(Call(Name("print"), <<>>, <<>>))>>)]
      [] k = 16 -> [src |-> "y",
                    ast |-> Some(<<ExprStmt(Name("y"))>>)]
      [] k = 17 -> [src |-> "a = [1, 2, 3]\na.append(4)\nprint(a)",
                    ast |-> Some(<<Assign(<<Name("a")>>, List(<<Constant(IntV(1)), Constant(IntV(2)), Constant(IntV(3))>>)),
                                   ExprStmt(Call(Attribute(Name("a"), "append"), <<Constant(IntV(4))>>, <<>>)),
                                   ExprStmt(Call(Name("print"), <<Name("a")>>, <<>>))>>)]
      [] k = 18 -> [src |-> "u = ['p', 'q']\nm = []\nfor url in u:\n    m.append(url)\nprint(m)",
                    ast |-> Some(<<Assign(<<Name("u")>>, List(<<Constant(StrV("p")), Constant(StrV("q"))>>)),
                                   Assign(<<Name("m")>>, List(<<>>)),
                                   For(Name("url"), Name("u"), <<ExprStmt(Call(Attribute(Name("m"), "append"), <<Name("url")>>, <<>>))>>),
                                   ExprStmt(Call(Name("print"), <<Name("m")>>, <<>>))>>)]
      [] k = 19 -> [src |-> "a = ['p']\nb = a\na.extend(['q', 'r'])\na.insert(0, 'o')\nprint(a)",
                    ast |-> Some(<<Assign(<<Name("a")>>, List(<<Constant(StrV("p"))>>)),
                                   Assign(<<Name("b")>>, Name("a")),
                                   ExprStmt(Call(Attribute(Name("a"), "extend"), <<List(<<Constant(StrV("q")), Constant(StrV("r"))>>)>>, <<>>)),
                                   ExprStmt(Call(Attribute(Name("a"), "insert"), <<Constant(IntV(0)), Constant(StrV("o"))>>, <<>>)),
                                   ExprStmt(Call(Name("print"), <<Name("a")>>, <<>>))>>)]
      [] k = 20 -> [src |-> "a = ['p']\na.append(1)\nfor i in a:\n    a.append(i)\nprint(a)",
                    ast |-> Some(<<Assign(<<Name("a")>>, List(<<Constant(StrV("p"))>>)),
                                   ExprStmt(Call(Attribute(Name("a"), "append"), <<Constant(IntV(1))>>, <<>>)),
                                   For(Name("i"), Name("a"), <<ExprStmt(Call(Attribute(Name("a"), "append"), <<Name("i")>>, <<>>))>>),
                                   ExprStmt(Call(Name("print"), <<Name("a")>>, <<>>))>>)]
      [] k = 21 -> [src |-> "a = [1, 2]\na.append(1 + 2)\nprint(a)",
                    ast |-> Some(<<Assign(<<Name("a")>>, List(<<Constant(IntV(1)), Constant(IntV(2))>>)),
                                   ExprStmt(Call(Attribute(Name("a"), "append"), <<BinOp(Constant(IntV(1)), "Add", Constant(IntV(2)))>>, <<>>)),
                                   ExprStmt(Call(Name("print"), <<Name("a")>>, <<>>))>>)]
      [] k = 22 -> [src |-> "a = ['p']\na.append(1)\nb = a\na.append(2)\nprint(a)",
                    ast |-> Some(<<Assign(<<Name("a")>>, List(<<Constant(StrV("p"))>>)),
                                   ExprStmt(Call(Attribute(Name("a"), "append"), <<Constant(IntV(1))>>, <<>>)),
                                   Assign(<<Name("b")>>, Name("a")),
                                   ExprStmt(Call(Attribute(Name("a"), "append"), <<Constant(IntV(2))>>, <<>>)),
                                   ExprStmt(Call(Name("print"), <<Name("a")>>, <<>>))>>)]
      [] k = 23 -> [src |-> "for item in ['p', 'q', 'r']:\n    print(item)\n    item",
                    ast |-> Some(<<For(Name("item"),
                                       List(<<Constant(StrV("p")), Constant(StrV("q")),
                                              Constant(StrV("r"))>>),
                                       <<ExprStmt(Call(Name("print"), <<Name("item")>>, <<>>)),
                                         ExprStmt(Name("item"))>>)>>)]
      [] k = 24 -> [src |-> "for item in []:\n    print(item)\n    item",
                    ast |-> Some(<<For(Name("item"), List(<<>>),
                                       <<ExprStmt(Call(Name("print"), <<Name("item")>>, <<>>)),
                                         ExprStmt(Name("item"))>>)>>)]
      [] k = 25 -> [src |-> "for item in range(3):\n    print(item)",
                    ast |-> Some(<<For(Name("item"),
                                       Call(Name("range"), <<Constant(IntV(3))>>, <<>>),
                                       <<ExprStmt(Call(Name("print"), <<Name("item")>>,
                                                       <<>>))>>)>>)]
      [] k = 26 -> [src |-> "print_logs = 'x'",
                    ast |-> Some(<<Assign(<<Name("print_logs")>>, Constant(StrV("x")))>>)]
      [] k = 27 -> [src |-> "a = b = print('hi')",
                    ast |-> Some(<<Assign(<<Name("a"), Name("b")>>,
                                          Call(Name("print"),
                                               <<Constant(StrV("hi"))>>, <<>>))>>)]
      [] k = 28 -> [src |-> "x, y = ['p', 'q', 'r']",
                    ast |-> Some(<<Assign(<<TupleExpr(<<Name("x"), Name("y")>>)>>,
                                          List(<<Constant(StrV("p")), Constant(StrV("q")),
                                                 Constant(StrV("r"))>>))>>)]
      [] k = 29 -> [src |-> "x, y = ['p', 'q']",
                    ast |-> Some(<<Assign(<<TupleExpr(<<Name("x"), Name("y")>>)>>,
                                          List(<<Constant(StrV("p")),
                                                 Constant(StrV("q"))>>))>>)]
      [] k = 30 -> [src |-> "foo(print('hi'))",
                    ast |-> Some(<<ExprStmt(Call(Name("foo"),
                                      <<Call(Name("print"), <<Constant(StrV("hi"))>>,
                                             <<>>)>>, <<>>))>>)]
      [] k \in SubscriptIds -> SubscriptScript(k)

\* the scripts the model of the code agent writes
ScriptIds == 1..9

\* the code fence, three backquotes in the source (a backquote cannot be
\* written in a string here)
Fence == "~~~"

\* the text a response is: the prose, then each block fenced
RenderText(text) ==
    text.prose \o JoinWith([i \in 1..Len(text.blocks) |->
                               Fence \o "py\n" \o Script(text.blocks[i]).src
                               \o "\n" \o Fence], "\n")

\* code_blob.contains("final") && code_blob.contains("answer") on the proses
\* of the model
MentionsFinalAnswer(prose) == prose \in {"The final answer is 42"}

\* parse_code_blobs: the captured blocks joined by a blank line; the code is
\* kept as the sequence of its blocks
ParseCodeBlobs(text) ==
    IF Len(text.blocks) = 0
    THEN IF MentionsFinalAnswer(text.prose)
         THEN Err(Parsing("The code blob is invalid. It seems like you're trying to return the final answer. Use:\nCode:\n" \o Fence \o "py\nfinal_answer(\"YOUR FINAL ANSWER HERE\")\n" \o Fence))
         ELSE Err(Parsing("The code blob is invalid. Make sure to include code with the correct pattern, for instance:\nThoughts: Your thoughts\nCode:\n" \o Fence \o "py\n# Your python code here\n" \o Fence))
    ELSE Ok(text.blocks)

CodeText(code) == JoinWith([i \in 1..Len(code) |-> Script(code[i]).src], "\n\n")

\* the statements of a rejected script that stand before the malformed one
ValidPrefix(k) ==
    CASE k = 13 -> Script(14).ast[1]
      [] OTHER -> <<>>

\* ast::Suite::parse(code): all of the text parses or none of it is handed
\* back; the other parser hands back the statements before the malformed one
SuiteParseLenient(code) ==
    Ok(Flatten([i \in 1..Len(code) |->
                   IF Script(code[i]).ast = None THEN ValidPrefix(code[i])
                   ELSE Script(code[i]).ast[1]]))
SuiteParse(code) ==
    IF \E i \in 1..Len(code) : Script(code[i]).ast = None
    THEN Err("invalid syntax")
    ELSE Ok(Flatten([i \in 1..Len(code) |-> Script(code[i]).ast[1]]))

\* the print log joined by newlines, empty when there is none
ExecutionLogs(st) ==
    IF Get(st, "print_logs") # None /\ st["print_logs"].any = "VecString"
    THEN JoinWith(st["print_logs"].l, "\n") ELSE ""

\* forward once the suite is evaluated
ForwardResult(ev) ==
    IF ~ev.r.ok THEN ev
    ELSE Eval(ev.state, Ok(<<ValueStr(ev.r.val), ExecutionLogs(ev.state)>>))

\* forward once the code is parsed
ForwardParsed(ast, st, reg) ==
    IF ~ast.ok THEN Eval(st, Err(SyntaxError(ast.err)))
    ELSE ForwardResult(EvaluateAst(ast.val, st, reg))

\* LocalPythonInterpreter::forward: the state it leaves and
\* Result<(result, execution_logs), InterpreterError>; the evaluation goes on
\* from self.state, the other one starts from an empty state at every call
ForwardFromEmpty(code, st, reg) == ForwardParsed(SuiteParse(code), EmptyState, reg)
Forward(code, st, reg) == ForwardParsed(SuiteParse(code), st, reg)

CodeResponses ==
    {RunFailed, NoChoices,
     Response(Ok(Text("Thought: I am stuck", <<>>)), Ok(<<>>)),
     Response(Ok(Text("The final answer is 42", <<>>)), Ok(<<>>))}
    \cup {Response(Ok(Text("Thought: run this\n", <<k>>)), Ok(<<>>)) : k \in ScriptIds}
    \cup {Response(Ok(Text("Thought: two blocks\n", <<5, 1>>)), Ok(<<>>))}

\* ------------------------------------------------------------- function-calling step
\* the loop over the returned tool calls (agents.rs 624-655): the result is
\* Err(e) when the final_answer call fails, Ok(Some(answer)) when it succeeds,
\* Ok(None) with the observations when every call was dispatched
\* the match on the function name: the arm whose call is followed by `?`
EveryToolIsFinal(function_name) == TRUE
IsFinalAnswerTool(function_name) == function_name = "final_answer"

\* the observation pushed for a call that is not final_answer
ObservationPushed(tool, r) ==
    IF r.ok THEN "Observation from " \o tool.name \o ": " \o Take30000(r.val)
    ELSE r.err.msg

\* the calls handed to tools.call are kept, in order, in `dispatched`; the
\* other loop goes on past a final_answer call and returns after the last call
RECURSIVE DispatchPastFinal(_, _, _)
DispatchPastFinal(reg, tcs, observations) ==
    IF Len(tcs) = 0
    THEN [result |-> Ok(None), observations |-> observations, dispatched |-> <<>>]
    ELSE LET tool == tcs[1]
             r == ToolGroupCall(reg, tool)
             rest == DispatchPastFinal(reg, Tail(tcs),
                         IF IsFinalAnswerTool(tool.name) THEN observations
                         ELSE Append(observations, ObservationPushed(tool, r)))
         IN  [result |-> IF ~IsFinalAnswerTool(tool.name) THEN rest.result
                         ELSE IF r.ok THEN Ok(Some(r.val)) ELSE Err(r.err),
              observations |-> rest.observations,
              dispatched |-> <<tool>> \o rest.dispatched]
RECURSIVE DispatchToolCalls(_, _, _)
DispatchToolCalls(reg, tcs, observations) ==
    IF Len(tcs) = 0
    THEN [result |-> Ok(None), observations |-> observations, dispatched |-> <<>>]
    ELSE LET tool == tcs[1]
             r == ToolGroupCall(reg, tool)
         IN  IF IsFinalAnswerTool(tool.name)
             THEN IF r.ok
                  THEN [result |-> Ok(Some(r.val)), observations |-> observations,
                        dispatched |-> <<tool>>]
                  ELSE [result |-> Err(r.err), observations |-> observations,
                        dispatched |-> <<tool>>]
             ELSE LET rest == DispatchToolCalls(reg, Tail(tcs),
                                  Append(observations, ObservationPushed(tool, r)))
                  IN  [rest EXCEPT !.dispatched = <<tool>> \o @]

\* what step hands back: [result, step_log, input_messages, state, panic];
\* input_messages is the field the step writes and reads back for the call
StepOut(result, step_log, st, panic) ==
    [result |-> result, step_log |-> step_log,
     input_messages |-> step_log.agent_memory, state |-> st, panic |-> panic]

\* FunctionCallingAgent::step once the tool calls are dispatched
AfterDispatch(d, step_log, st) ==
    StepOut(d.result,
            IF d.result.ok /\ d.result.val = None
            THEN [step_log EXCEPT !.observations = Some(d.observations)]
            ELSE step_log,
            st, FALSE)

\* the early return on a text with no tool calls (agents.rs 616-623)
NeverReturnsText(response, tcs) == FALSE
ReturnsText(response, tcs) == response.ok /\ Len(tcs) = 0

\* FunctionCallingAgent::step on a fresh step_log; resp is what model.run
\* returned; st is the interpreter state, which this agent has none of
FunctionCallingStep(ls, reg, st, step_log, resp) ==
    LET log1 == [step_log EXCEPT
                    !.agent_memory = Some(WriteInnerMemoryFromLogs(ls, FALSE))]
    IN  IF resp.run = "err"
        THEN StepOut(Err(Generation("model call failed")), log1, st, FALSE)
        ELSE IF ~GetToolsUsed(resp).ok
        THEN StepOut(Err(GetToolsUsed(resp).err), log1, st, FALSE)
        ELSE
        LET tcs == GetToolsUsed(resp).val
            log2 == [log1 EXCEPT !.tool_call = Some(tcs)]
            response == GetResponse(resp)
            observations ==
                IF response.ok /\ ~IsBlank(RenderText(response.val))
                THEN <<RenderText(response.val)>> ELSE <<>>
        IN  IF ReturnsText(response, tcs)
            THEN StepOut(Ok(Some(RenderText(response.val))), log2, st, FALSE)
            ELSE AfterDispatch(DispatchToolCalls(reg, tcs, observations), log2, st)

\* ------------------------------------------------------------- code-agent step
\* the observation of a successful interpretation (agents.rs 782-791)
Observation(result, execution_logs) ==
    LET observation ==
            IF execution_logs # "" THEN "Execution logs: " \o execution_logs
            ELSE "Observation: " \o result
    IN  IF Len(observation) > 30000
        THEN Take30000(observation) \o " \n....This content has been truncated due to the 30000 character limit....."
        ELSE observation

\* CodeAgent::step once the interpreter returned (agents.rs 780-812)
AfterForward(result, step_log) ==
    IF result.r.ok
    THEN StepOut(Ok(None),
                 [step_log EXCEPT !.observations =
                     Some(<<Observation(result.r.val[1], result.r.val[2])>>)],
                 result.state, FALSE)
    ELSE IF result.r.err.kind = "FinalAnswer"
    THEN StepOut(Ok(Some(result.r.err.msg)), step_log, result.state, FALSE)
    ELSE IF result.r.err.kind = "panic"
    THEN StepOut(Ok(None), step_log, result.state, TRUE)
    ELSE StepOut(Ok(None),
                 [step_log EXCEPT !.error =
                     Some(Execution(InterpreterErrorToString(result.r.err)))],
                 result.state, FALSE)

\* CodeAgent::step once the response text is parsed for code (agents.rs 761-779)
AfterParse(code, step_log, st, reg) ==
    IF ~code.ok
    THEN StepOut(Ok(None), [step_log EXCEPT !.error = Some(code.err)], st, FALSE)
    ELSE AfterForward(Forward(code.val, st, reg),
                      [step_log EXCEPT !.tool_call =
                          Some(<<ToolCall(None, "python_interpreter",
                                     Args(None, None, Some(CodeText(code.val))))>>)])

\* CodeAgent::step on a fresh step_log; resp is what model.run returned
CodeAgentStep(ls, reg, st, step_log, resp) ==
    LET log1 == [step_log EXCEPT
                    !.agent_memory = Some(WriteInnerMemoryFromLogs(ls, FALSE))]
    IN  IF resp.run = "err"
        THEN StepOut(Err(Generation("model call failed")), log1, st, FALSE)
        ELSE IF ~GetResponse(resp).ok
        THEN StepOut(Err(GetResponse(resp).err), log1, st, FALSE)
        ELSE AfterParse(ParseCodeBlobs(GetResponse(resp).val),
                        [log1 EXCEPT !.llm_output =
                            Some(RenderText(GetResponse(resp).val))],
                        st, reg)

\* ------------------------------------------------------------- the agent
\* the task handed to the n-th run call of an agent
TaskOf(n) == "task " \o ToString(n)

\* the batch runner is not in use while one agent is driven
ParallelOff ==
    /\ ptasks = <<>>
    /\ ppc = "off"
    /\ worker = <<>>
    /\ outcome = <<>>
    /\ results = <<>>
    /\ builds = <<>>
    /\ agents = <<>>
    /\ logger_set = TRUE

\* FunctionCallingAgent::new / CodeAgent::new
Init ==
    /\ kind \in {"fc", "code"}
    /\ max_steps \in 0..MaxSteps
    /\ \E caller \in CallerTools : tools = NewTools(caller)
    /\ step_number = 0
    /\ task = ""
    /\ logs = <<>>
    /\ state = EmptyState
    /\ pc = "idle"
    /\ reset = FALSE
    /\ ret = None
    /\ runs = 0
    /\ calls = 0
    /\ steps = 0
    /\ entry = 0
    /\ last = [act |-> "new"]
    /\ ParallelOff

\* the transcript run leaves before it pushes the TaskStep (agents.rs 156-165)
LogsKept(ls, system_prompt_step, r) ==
    IF ls = <<>> THEN <<system_prompt_step>>
    ELSE [ls EXCEPT ![1] = system_prompt_step]
LogsCleared(ls, system_prompt_step, r) == <<system_prompt_step>>
LogsOnRun(ls, system_prompt_step, r) ==
    IF r THEN <<system_prompt_step>>
    ELSE IF ls = <<>> THEN <<system_prompt_step>>
    ELSE [ls EXCEPT ![1] = system_prompt_step]

\* the interpreter environment run leaves: run reaches the transcript, the
\* task and the counter only, the interpreter is a field of the CodeAgent
StateCleared(st, r) == IF r THEN EmptyState ELSE st
StateOnRun(st, r) == st

\* the step counter run leaves: reset_step_number() under reset only
StepNumberZeroed(n, r) == 0
StepNumberOnRun(n, r) == IF r THEN 0 ELSE n

\* Agent::run up to the call of direct_run or stream_run (stream_run is todo!())
Run(t, stream, r) ==
    /\ pc = "idle"
    /\ runs < MaxRuns
    /\ task' = t
    /\ logs' = Append(LogsOnRun(logs, SystemPromptStep(SystemPrompt(kind)), r),
                      TaskStep(t))
    /\ step_number' = StepNumberOnRun(step_number, r)
    /\ pc' = IF stream THEN "panicked" ELSE "running"
    /\ reset' = r
    /\ ret' = None
    /\ runs' = runs + 1
    /\ calls' = 0
    /\ steps' = 0
    /\ entry' = step_number'
    /\ last' = [act |-> "run", stream |-> stream,
                n |-> step_number, len |-> Len(logs)]
    /\ state' = StateOnRun(state, r)
    /\ UNCHANGED <<kind, tools, max_steps, parVars>>

\* one iteration of the loop of direct_run after step returned `out`, and the
\* return of direct_run when the step gave the final answer; `?` on the call
\* of step returns before the push and the increment (IterationPushesFirst
\* pushes and increments before it looks at the result)
IterationPushesFirst(out) ==
    /\ state' = out.state
    /\ calls' = calls + 1
    /\ steps' = steps + 1
    /\ IF out.panic
       THEN /\ pc' = "panicked"
            /\ UNCHANGED <<logs, step_number, ret>>
       ELSE /\ logs' = Append(logs, ActionStep(out.step_log))
            /\ step_number' = step_number + 1
            /\ IF ~out.result.ok
               THEN pc' = "idle" /\ ret' = Some(Err(out.result.err))
               ELSE IF out.result.val # None
               THEN pc' = "idle" /\ ret' = Some(Ok(out.result.val[1]))
               ELSE UNCHANGED <<pc, ret>>
Iteration(out) ==
    /\ state' = out.state
    /\ calls' = calls + 1
    /\ steps' = steps + 1
    /\ IF out.panic
       THEN /\ pc' = "panicked"
            /\ UNCHANGED <<logs, step_number, ret>>
       ELSE IF ~out.result.ok
       THEN /\ pc' = "idle"
            /\ ret' = Some(Err(out.result.err))
            /\ UNCHANGED <<logs, step_number>>
       ELSE /\ logs' = Append(logs, ActionStep(out.step_log))
            /\ step_number' = step_number + 1
            /\ IF out.result.val # None
               THEN pc' = "idle" /\ ret' = Some(Ok(out.result.val[1]))
               ELSE UNCHANGED <<pc, ret>>

\* the loop condition of direct_run, final_answer.is_none() being pc = "running"
LoopUnbounded(n, max) == TRUE
LoopCondition(n, max) == n < max

\* the condition of the call of provide_final_answer after the loop
ExhaustCondition(n, max) == n >= max

\* direct_run is at the head of its loop and enters the body
CanStep == pc = "running" /\ LoopCondition(step_number, max_steps)

\* direct_run has left its loop with no final answer and calls
\* provide_final_answer
CanExhaust ==
    /\ pc = "running"
    /\ ~LoopCondition(step_number, max_steps)
    /\ ExhaustCondition(step_number, max_steps)

\* a loop iteration of direct_run on a FunctionCallingAgent
StepFunctionCalling ==
    /\ CanStep
    /\ kind = "fc"
    /\ \E resp \in FcResponses :
          /\ Iteration(FunctionCallingStep(logs, tools, state,
                                           NewAgentStep(step_number), resp))
          /\ last' = [act |-> "step", resp |-> resp, pre |-> state,
                      n |-> step_number, len |-> Len(logs)]
    /\ UNCHANGED <<kind, tools, max_steps, task, reset, runs, entry, parVars>>

\* a loop iteration of direct_run on a CodeAgent
StepCode ==
    /\ CanStep
    /\ kind = "code"
    /\ \E resp \in CodeResponses :
          /\ Iteration(CodeAgentStep(logs, tools, state, NewAgentStep(step_number), resp))
          /\ last' = [act |-> "step", resp |-> resp, pre |-> state,
                      n |-> step_number, len |-> Len(logs)]
    /\ UNCHANGED <<kind, tools, max_steps, task, reset, runs, entry, parVars>>

ExhaustResponses ==
    {RunFailed, NoChoices, Response(Ok(Text("my best guess", <<>>)), Ok(<<>>))}

\* the messages provide_final_answer sends
FinalAnswerMessages(ls, t) ==
    <<Message("System", "An agent tried to answer a user query but it got stuck and failed to do so. You are tasked with providing an answer instead. Here is the agent's memory:")>>
    \o Tail(WriteInnerMemoryFromLogs(ls, TRUE))
    \o <<Message("User", "Based on the above, please provide an answer to the following user request: \n" \o Fence \o "\n" \o t)>>

\* Agent::provide_final_answer: Result<Option<String>>
ProvideFinalAnswerResult(resp) ==
    IF resp.run = "err" THEN Err(Generation("model call failed"))
    ELSE IF ~GetResponse(resp).ok THEN Err(GetResponse(resp).err)
    ELSE Ok(Some(RenderText(GetResponse(resp).val)))

\* the return of direct_run once provide_final_answer returned r
DirectRunReturnFixed(r) == Ok("Max steps reached without final answer")
DirectRunReturn(r) ==
    IF ~r.ok THEN Err(r.err)
    ELSE IF r.val # None THEN Ok(r.val[1])
    ELSE Ok("Max steps reached without final answer")

\* direct_run after its loop, with no final answer and the counter at max_steps
ProvideFinalAnswer ==
    /\ CanExhaust
    /\ \E resp \in ExhaustResponses :
          /\ ret' = Some(DirectRunReturn(ProvideFinalAnswerResult(resp)))
          /\ last' = [act |-> "exhaust", resp |-> resp,
                      sent |-> FinalAnswerMessages(logs, task),
                      n |-> step_number, len |-> Len(logs)]
    /\ pc' = "idle"
    /\ calls' = calls + 1
    /\ UNCHANGED <<kind, tools, max_steps, step_number, task, logs,
                   state, reset, runs, steps, entry, parVars>>

Next ==
    \/ \E stream \in BOOLEAN, r \in BOOLEAN : Run(TaskOf(runs + 1), stream, r)
    \/ StepFunctionCalling
    \/ StepCode
    \/ ProvideFinalAnswer

Spec == Init /\ [][Next]_vars

\* ------------------------------------------------------------- the interpreter alone
\* the number of calls made on one interpreter
MaxForwards == 2

\* the scripts handed to an interpreter
InterpScriptIds == (1..30) \cup SubscriptIds

\* evaluate_python_code on the caller's state: the state it leaves and
\* Result<String, InterpreterError>
EvaluatePythonCodeParsed(ast, st, reg) ==
    IF ~ast.ok THEN Eval(st, Err(SyntaxError(ast.err)))
    ELSE LET ev == EvaluateAst(ast.val, st, reg)
         IN  IF ~ev.r.ok THEN ev ELSE Eval(ev.state, Ok(ValueStr(ev.r.val)))

EvaluatePythonCode(code, reg, st) == EvaluatePythonCodeParsed(SuiteParse(code), st, reg)

\* the tool lists handed to an interpreter: the tools of an agent, and a list
\* with tools that bear the names of print and of a builtin
InterpCallerTools ==
    {<<"duckduckgo_search">>, <<"duckduckgo_search", "print", "range">>}

\* LocalPythonInterpreter::new(tools)
InterpInit ==
    /\ kind = "interp"
    /\ max_steps = 0
    /\ \E caller \in InterpCallerTools : tools = NewTools(caller)
    /\ step_number = 0
    /\ task = ""
    /\ logs = <<>>
    /\ state = EmptyState
    /\ pc = "ready"
    /\ reset = FALSE
    /\ ret = None
    /\ runs = 0
    /\ calls = 0
    /\ steps = 0
    /\ entry = 0
    /\ last = [act |-> "new"]
    /\ ParallelOff

\* what a call leaves: the state of the interpreter, and a process that is
\* gone when the evaluation panicked
Evaluated(ev, act, k) ==
    /\ pc = "ready"
    /\ calls < MaxForwards
    /\ state' = ev.state
    /\ calls' = calls + 1
    /\ pc' = IF ~ev.r.ok /\ ev.r.err.kind = "panic" THEN "panicked" ELSE "ready"
    /\ last' = [act |-> act, k |-> k, pre |-> state, r |-> ev.r]
    /\ UNCHANGED <<kind, tools, max_steps, step_number, task, logs, reset, ret,
                   runs, steps, entry, parVars>>

\* interpreter.forward(code)
InterpForward(k) == Evaluated(Forward(<<k>>, state, tools), "forward", k)

\* evaluate_python_code(code, tools, &mut state)
InterpEvaluate(k) == Evaluated(EvaluatePythonCode(<<k>>, tools, state), "evaluate", k)

NextInterp ==
    \/ \E k \in InterpScriptIds : InterpForward(k)
    \/ \E k \in InterpScriptIds : InterpEvaluate(k)

SpecInterp == InterpInit /\ [][NextInterp]_vars

\* ------------------------------------------------------------- the projection alone
\* the length of the transcripts handed to the projection
MaxEntries == 3

\* Step::ToolCall
ToolCallStep(tc) == [tag |-> "ToolCall", call |-> tc]

\* the ActionSteps of the transcripts: a step of a code agent with its
\* synthesized call and its observation, a step of a function-calling agent
\* with a tool call and its observation, and a step that recorded an error
CodeActionStep ==
    ActionStep([NewAgentStep(0) EXCEPT
        !.llm_output = Some("Thought: run this\n"),
        !.tool_call = Some(<<ToolCall(None, "python_interpreter",
                                      Args(None, None, Some("x")))>>),
        !.observations = Some(<<"Observation: v">>)])
FcActionStep ==
    ActionStep([NewAgentStep(1) EXCEPT
        !.tool_call = Some(<<TcSearch>>),
        !.observations = Some(<<"Observation from duckduckgo_search: results for rust">>)])
ErrorActionStep ==
    ActionStep([NewAgentStep(2) EXCEPT
        !.llm_output = Some("Thought: I am stuck"),
        !.error = Some(Execution("Tool not found"))])

\* the entries of the transcripts
MemoryEntries ==
    {SystemPromptStep("TOOL_CALLING_SYSTEM_PROMPT"), TaskStep("task 1"),
     PlanningStep("plan A", "facts A"), ToolCallStep(TcSearch),
     CodeActionStep, FcActionStep, ErrorActionStep}

Transcripts ==
    UNION {[1..n -> MemoryEntries] : n \in 0..MaxEntries}

\* an agent whose transcript a caller has filled
MemoryInit ==
    /\ kind = "memory"
    /\ max_steps = MaxEntries
    /\ tools = NewTools(<<"duckduckgo_search">>)
    /\ logs \in Transcripts
    /\ step_number \in 0..1
    /\ task = ""
    /\ state = EmptyState
    /\ pc = "ready"
    /\ reset = FALSE
    /\ ret = None
    /\ runs = 0
    /\ calls = 0
    /\ steps = 0
    /\ entry = 0
    /\ last = [act |-> "new"]
    /\ ParallelOff

\* agent.write_inner_memory_from_logs(Some(summary_mode)): the loop reads the
\* entries through get_logs_mut() and writes to none of them
Project(summary_mode) ==
    /\ kind = "memory"
    /\ last' = [act |-> "project", mode |-> summary_mode, pre |-> logs,
                n |-> step_number,
                out |-> WriteInnerMemoryFromLogs(logs, summary_mode)]
    /\ calls' = IF calls < 1 THEN calls + 1 ELSE calls
    /\ UNCHANGED <<kind, tools, max_steps, step_number, task, logs, state, pc,
                   reset, ret, runs, steps, entry, parVars>>

NextMemory == \E summary_mode \in BOOLEAN : Project(summary_mode)

SpecMemory == MemoryInit /\ [][NextMemory]_vars

\* ------------------------------------------------------------- the integer conversions alone
\* The conversions fold the u32 digits of a BigInt into an i64. The widths
\* are scaled: a digit has DigitBits bits where a u32 has 32, and a word has
\* twice as many, as an i64 has 64, so that a value of two digits and the
\* overflow of the word are within reach.
DigitBits == 4
DigitBase == 2 ^ DigitBits
WordModulus == 2 ^ (2 * DigitBits)
WordMax == (WordModulus \div 2) - 1
WordMin == 0 - (WordModulus \div 2)

\* the integers n with WordMin < n <= WordMax
BigInts == (WordMin + 1)..WordMax

\* BigInt::to_u32_digits: the sign and the digits, least significant first
Magnitude(n) == IF n < 0 THEN 0 - n ELSE n
ToU32Digits(n) ==
    [sign |-> IF n < 0 THEN "Minus" ELSE IF n = 0 THEN "NoSign" ELSE "Plus",
     digits |-> IF n = 0 THEN <<>>
                ELSE IF Magnitude(n) < DigitBase THEN <<Magnitude(n)>>
                ELSE <<Magnitude(n) % DigitBase, Magnitude(n) \div DigitBase>>]

\* a word after wrapping arithmetic
Wrap(x) == ((x - WordMin) % WordModulus) + WordMin

\* i.1.iter().fold(0i64, |acc, &d| acc * (1 << 32) + d as i64): the digits
\* are taken in the order of the vector; an overflow panics in a build with
\* overflow checks and wraps in one without
RECURSIVE FoldDigits(_, _, _)
FoldDigits(digits, acc, checked) ==
    IF Len(digits) = 0 THEN [panic |-> FALSE, val |-> acc]
    ELSE LET next == acc * DigitBase + digits[1]
         IN  IF next > WordMax /\ checked THEN [panic |-> TRUE]
             ELSE FoldDigits(Tail(digits), Wrap(next), checked)

\* convert_bigint_to_i64
ConvertBigintToI64(n, checked) ==
    LET num == FoldDigits(ToU32Digits(n).digits, 0, checked)
    IN  IF num.panic THEN num
        ELSE IF ToU32Digits(n).sign = "Minus"
        THEN [panic |-> FALSE, val |-> 0 - num.val]
        ELSE num

\* convert_bigint_to_f64: `-num as f64` and `num as f64` are exact on a word
ConvertBigintToF64(n, checked) == ConvertBigintToI64(n, checked)

\* an integer literal of a script
ConvertInit ==
    /\ kind = "convert"
    /\ max_steps = 0
    /\ tools = <<>>
    /\ logs = <<>>
    /\ step_number = 0
    /\ task = ""
    /\ state = EmptyState
    /\ pc = "ready"
    /\ reset = FALSE
    /\ ret = None
    /\ runs = 0
    /\ calls = 0
    /\ steps = 0
    /\ entry = 0
    /\ \E n \in BigInts : last = [act |-> "literal", n |-> n]
    /\ ParallelOff

\* the interpreter converts the literal, in a build with overflow checks or
\* in one without
Convert(checked) ==
    /\ kind = "convert"
    /\ last.act = "literal"
    /\ last' = [act |-> "convert", n |-> last.n, checked |-> checked,
                i64 |-> ConvertBigintToI64(last.n, checked),
                f64 |-> ConvertBigintToF64(last.n, checked)]
    /\ pc' = IF ConvertBigintToI64(last.n, checked).panic THEN "panicked" ELSE pc
    /\ UNCHANGED <<kind, tools, max_steps, step_number, task, logs, state,
                   reset, ret, runs, calls, steps, entry, parVars>>

NextConvert == \E checked \in BOOLEAN : Convert(checked)

SpecConvert == ConvertInit /\ [][NextConvert]_vars

\* ------------------------------------------------------------- properties of a run
\* the response the last step got names a tool that is not registered, and
\* holds no final_answer call
UnregisteredCall(resp) ==
    /\ resp.run = "ok"
    /\ resp.tool_calls.ok
    /\ \E i \in 1..Len(resp.tool_calls.val) :
          \A j \in 1..Len(tools) : tools[j] # resp.tool_calls.val[i].name
    /\ \A i \in 1..Len(resp.tool_calls.val) :
          resp.tool_calls.val[i].name # "final_answer"

\* the last step of a code agent ran exactly the script k
RanScript(k) ==
    /\ last.act = "step"
    /\ kind = "code"
    /\ last.resp.run = "ok"
    /\ last.resp.text.ok
    /\ last.resp.text.val.blocks = <<k>>

\* the scripts that reach a call final_answer(answer=X): the X, and the state
\* the statements before the call leave
AnswerOf(k) ==
    CASE k = 1 -> "Hello, world!"
      [] k = 2 -> "a"
      [] k = 3 -> "p"

StateBeforeCall(k, pre) ==
    CASE k = 1 -> pre
      [] k = 2 -> Insert(pre, "x", AnyConstant(StrV("a")))
      [] k = 3 -> Insert(pre, "item", AnyConstant(StrV("p")))

\* C1: right after run(task, stream, reset = true) has reset the agent and
\* before the first step, whatever the transcript and the counter were, the
\* transcript is the SystemPromptStep of the current system prompt followed
\* only by the TaskStep of the new task, and the step counter is 0.
C1_ResetLeavesFreshTranscript ==
    (last.act = "run" /\ reset) =>
        /\ logs = <<SystemPromptStep(SystemPrompt(kind)), TaskStep(task)>>
        /\ task = TaskOf(runs)
        /\ step_number = 0

\* a second run with reset on an agent whose transcript held action steps and
\* whose counter was above 0
C1_Witness ==
    /\ last.act = "run"
    /\ reset
    /\ last.len > 2
    /\ last.n > 0
    /\ Len(logs) = 2
    /\ step_number = 0

\* C2: a run performs at most max_steps minus the counter at loop entry steps
\* and at most one model call more than its steps; the counter never passes
\* max_steps; the exhaustion call ends the run; and a run in progress always
\* can take a step or make the exhaustion call, so every run terminates within
\* that bound.
C2_RunIsBounded ==
    /\ steps <= max_steps - entry
    /\ calls <= steps + 1
    /\ step_number <= max_steps
    /\ (last.act = "exhaust" => pc = "idle")
    /\ (pc = "running" => (CanStep \/ CanExhaust))

\* a run of max_steps = 2 that never answered: two steps, the exhaustion call,
\* and the run is over
C2_Witness ==
    /\ pc = "idle"
    /\ runs = 1
    /\ ret # None
    /\ max_steps = 2
    /\ steps = 2
    /\ calls = 3
    /\ logs[3].error # None

\* C3: a script that reaches final_answer(answer = X), at top level or in the
\* body of a for loop, makes the interpreter fail with FinalAnswer(X), leaves
\* the state as the statements before the call left it (nothing after the call
\* is evaluated), and the run of the code agent returns exactly X at once.
C3_FinalAnswerRoundTrip ==
    \A k \in 1..3 :
        RanScript(k) =>
            /\ ~Forward(<<k>>, last.pre, tools).r.ok
            /\ Forward(<<k>>, last.pre, tools).r.err = FinalAnswer(AnswerOf(k))
            /\ state = StateBeforeCall(k, last.pre)
            /\ pc = "idle"
            /\ ret # None
            /\ ret[1].ok
            /\ ret[1].val = AnswerOf(k)
            /\ Len(logs) = last.len + 1
            /\ step_number = last.n + 1

\* the call in the body of the for loop: the run returned the first item and the
\* assignment after the call did not happen
C3_Witness ==
    /\ RanScript(3)
    /\ ret # None
    /\ ret[1].ok
    /\ ret[1].val = "p"
    /\ "y" \notin DOMAIN state
    /\ "item" \in DOMAIN state

\* C4: run returns an error only when a Model Gateway call failed: the error
\* is of class Generation, never Parsing or Execution.
C4_OnlyGenerationIsFatal ==
    (ret # None /\ ~ret[1].ok) => ret[1].err.class = "Generation"

\* C5: a function-calling agent on a fresh transcript whose first step gets a
\* non-empty text and no tool calls ends after that one step: run returns that
\* text, one model call was made, and the transcript holds one ActionStep.
C5_TextResponseEndsRun ==
    ( /\ last.act = "step"
      /\ kind = "fc"
      /\ steps = 1
      /\ last.len = 2
      /\ last.resp.run = "ok"
      /\ last.resp.tool_calls.ok
      /\ last.resp.tool_calls.val = <<>>
      /\ last.resp.text.ok
      /\ RenderText(last.resp.text.val) # "" ) =>
        /\ pc = "idle"
        /\ ret # None
        /\ ret[1].ok
        /\ ret[1].val = RenderText(last.resp.text.val)
        /\ calls = 1
        /\ Cardinality({i \in 1..Len(logs) : logs[i].tag = "ActionStep"}) = 1

\* the text "Paris" with no tool calls on the first step of a run
C5_Witness ==
    /\ last.act = "step"
    /\ kind = "fc"
    /\ steps = 1
    /\ last.len = 2
    /\ last.resp = Response(Ok(Text("Paris", <<>>)), Ok(<<>>))
    /\ ret = Some(Ok("Paris"))

\* C6: a step whose response names an unregistered tool does not abort the run:
\* it gives no final answer, its ActionStep, holding the tool calls, is
\* appended, the counter goes up by one, and the next step is taken when
\* max_steps allows.
C6_UnknownToolDoesNotAbort ==
    (last.act = "step" /\ kind = "fc" /\ UnregisteredCall(last.resp)) =>
        /\ pc = "running"
        /\ ret = None
        /\ Len(logs) = last.len + 1
        /\ logs[Len(logs)].tag = "ActionStep"
        /\ logs[Len(logs)].tool_call = Some(last.resp.tool_calls.val)
        /\ step_number = last.n + 1
        /\ (step_number < max_steps => CanStep)

\* the first step of a run of max_steps = 2 got the call of web_browser, and
\* the run is about to take step 2
C6_Witness ==
    /\ last.act = "step"
    /\ kind = "fc"
    /\ last.resp.run = "ok"
    /\ last.resp.tool_calls = Ok(<<TcUnknown>>)
    /\ step_number = 1
    /\ max_steps = 2
    /\ pc = "running"

\* C7: the ActionStep appended for a step whose response names an unregistered
\* tool has a non-empty error field.
C7_UnknownToolSetsError ==
    ( /\ last.act = "step"
      /\ kind = "fc"
      /\ UnregisteredCall(last.resp)
      /\ Len(logs) = last.len + 1 ) =>
        logs[Len(logs)].error # None

\* C8: a run whose counter reached max_steps with no final answer makes exactly
\* one more model call, max_steps + 1 in all when it entered its loop at 0, and
\* returns the text of that call; with max_steps = 0 it takes no step. A run
\* that got its answer from a step makes no such call.
C8_ExhaustionMakesOneMoreCall ==
    /\ (pc = "running" /\ step_number >= max_steps) => CanExhaust
    /\ (pc = "idle" /\ last.act = "step") => calls = steps
    /\ last.act = "exhaust" =>
          /\ pc = "idle"
          /\ step_number = max_steps
          /\ calls = steps + 1
          /\ (entry = 0 => calls = max_steps + 1)
          /\ (max_steps = 0 => steps = 0)
          /\ (last.resp.run = "ok" /\ last.resp.text.ok) =>
                /\ ret # None
                /\ ret[1].ok
                /\ ret[1].val = RenderText(last.resp.text.val)

\* max_steps = 0: no step, one model call, whose text is returned
C8_Witness ==
    /\ last.act = "exhaust"
    /\ max_steps = 0
    /\ steps = 0
    /\ calls = 1
    /\ last.resp.run = "ok"
    /\ ret = Some(Ok("my best guess"))

\* C9: when the model call made after max_steps is exhausted fails, run returns
\* the string "Max steps reached without final answer", not an error.
C9_FailedExhaustionReturnsFixedString ==
    (last.act = "exhaust" /\ ~ProvideFinalAnswerResult(last.resp).ok) =>
        /\ ret # None
        /\ ret[1].ok
        /\ ret[1].val = "Max steps reached without final answer"

\* C23: after construction the names of the tool registry are pairwise
\* distinct, also when the caller's list already holds final_answer.
C23_RegistryNamesDistinct ==
    \A i, j \in 1..Len(tools) : i # j => tools[i] # tools[j]

\* C24: a run with stream = true executes the state machine of a run with
\* stream = false: once run has prepared the transcript the loop of direct_run
\* is entered, whatever the stream flag, and the run goes on to its answer.
C24_StreamRunsLikeDirect ==
    (last.act = "run" /\ last.stream) => pc = "running"

\* C25: when the call of the model fails during a step, the run returns that
\* error at once: the step's ActionStep is not appended to the transcript and
\* the step counter is not incremented.
C25_ModelFailureLeavesNoStep ==
    [][ (pc = "running" /\ last'.act = "step" /\ calls' = calls + 1
            /\ last'.resp.run = "err") =>
            /\ pc' = "idle"
            /\ ret' = Some(Err(Generation("model call failed")))
            /\ logs' = logs
            /\ step_number' = step_number ]_vars

\* the model fails in the second step of a run: the transcript keeps the
\* first step only
C25_Witness ==
    /\ last.act = "step"
    /\ last.resp.run = "err"
    /\ steps = 2
    /\ pc = "idle"
    /\ ret = Some(Err(Generation("model call failed")))
    /\ step_number = last.n
    /\ Len(logs) = last.len
    /\ logs[Len(logs)].tag = "ActionStep"

\* C26: across runs with reset = false the transcript is append-only: a call
\* of run replaces element 0 by the current SystemPromptStep and appends one
\* TaskStep, a step appends at most one ActionStep, and every entry at a
\* position >= 1 stays where it was, unmodified; the memory projection writes
\* to no entry.
C26_TranscriptAppendOnly ==
    [][ ~(runs' = runs + 1 /\ reset') =>
            /\ Len(logs') >= Len(logs)
            /\ \A i \in 2..Len(logs) : logs'[i] = logs[i]
            /\ (runs' = runs + 1) =>
                  /\ Len(logs') = (IF logs = <<>> THEN 1 ELSE Len(logs)) + 1
                  /\ logs'[1] = SystemPromptStep(SystemPrompt(kind))
                  /\ logs'[Len(logs')] = TaskStep(task')
            /\ (runs' = runs) =>
                  \/ logs' = logs
                  \/ /\ Len(logs') = Len(logs) + 1
                     /\ logs'[1] = logs[1]
                     /\ logs'[Len(logs')].tag = "ActionStep" ]_vars

\* a second run without reset has appended its TaskStep and an ActionStep
\* after the entries of the first run
C26_Witness ==
    /\ runs = 2
    /\ ~reset
    /\ last.act = "step"
    /\ Len(logs) = 5
    /\ logs[2] = TaskStep(TaskOf(1))
    /\ logs[3].tag = "ActionStep"
    /\ logs[4] = TaskStep(TaskOf(2))
    /\ logs[5].tag = "ActionStep"

\* the ActionSteps of a transcript, in transcript order
ActionSteps(ls) == SelectSeq(ls, LAMBDA s : s.tag = "ActionStep")

\* C27: in every reachable state the step indices of the ActionSteps of the
\* transcript are consecutive and strictly increasing in transcript order,
\* each the value of the counter when the step was created, and the counter
\* stands one past the last of them, whatever the reset flags of the runs
\* and whether or not a run was aborted by a failure of the model.
C27_StepIndicesConsecutive ==
    /\ \A i \in 1..Len(ActionSteps(logs)) :
          ActionSteps(logs)[i].step = i - 1
    /\ step_number = Len(ActionSteps(logs))
    /\ (last.act = "step" /\ Len(logs) = last.len + 1) =>
          logs[Len(logs)].step = last.n /\ step_number = last.n + 1

\* a second run without reset, after a run that ended with its first step,
\* has appended the step of index 1
C27_Witness ==
    /\ runs = 2
    /\ ~reset
    /\ last.act = "step"
    /\ Len(ActionSteps(logs)) = 2
    /\ logs[3].tag = "ActionStep" /\ logs[3].step = 0
    /\ logs[4].tag = "TaskStep"
    /\ logs[5].tag = "ActionStep" /\ logs[5].step = 1
    /\ step_number = 2

\* an ActionStep holds an observation or a recorded error
Informative(s) ==
    \/ s.observations # None /\ s.observations[1] # <<>>
    \/ s.error # None

\* C28: every ActionStep appended by a step that did not end the run carries
\* at least one observation or a recorded error, for both kinds of agent and
\* every response of the model.
C28_NonTerminalStepIsInformative ==
    (last.act = "step" /\ pc = "running" /\ Len(logs) = last.len + 1) =>
        Informative(logs[Len(logs)])

\* the same for the steps of a code agent and for the responses whose text
\* can be read
C28_ReadableOrCode ==
    (last.act = "step" /\ pc = "running" /\ Len(logs) = last.len + 1
        /\ (kind = "code" \/ GetResponse(last.resp).ok)) =>
        Informative(logs[Len(logs)])

\* the steps a run that entered with the counter at n can still append
Available(n, max) == IF n >= max THEN 0 ELSE max - n

\* C29: runs with reset = false share the step counter: a run enters with the
\* counter the earlier runs left, every step it appends (the one that gives
\* the final answer too) raises the counter by one, so it appends at most
\* max_steps minus the steps consumed since the last reset, and exactly that
\* many when it ends by exhaustion; a run that enters with the counter at
\* max_steps or above executes no step and returns what the exhaustion call
\* gives.
C29_CounterSharedAcrossRuns ==
    /\ (last.act = "run" /\ ~reset) => step_number = last.n /\ entry = last.n
    /\ (last.act = "run" /\ reset) => step_number = 0 /\ entry = 0
    /\ (last.act = "step" /\ Len(logs) = last.len + 1) => step_number = last.n + 1
    /\ (last.act = "step" /\ Len(logs) = last.len) => step_number = last.n
    /\ runs >= 1 =>
          /\ step_number - entry <= Available(entry, max_steps)
          /\ step_number - entry <= steps
          /\ CanStep <=> (pc = "running"
                            /\ step_number - entry < Available(entry, max_steps))
          /\ last.act = "exhaust" =>
                step_number - entry = Available(entry, max_steps)
          /\ entry >= max_steps =>
                /\ steps = 0
                /\ step_number = entry
                /\ ret # None => last.act = "exhaust" /\ calls = 1

\* the second run enters without reset after a run that consumed one of the
\* two steps: it appends one step and ends by exhaustion
C29_Witness ==
    /\ runs = 2
    /\ ~reset
    /\ max_steps = 2
    /\ entry = 1
    /\ steps = 1
    /\ step_number = 2
    /\ last.act = "exhaust"
    /\ ret # None

\* C32: in a function-calling step a response with no tool calls ends the run
\* only if its text is non-empty: after a response with no tool calls whose
\* text is empty or whitespace only, the run has not returned and goes on.
C32_BlankTextIsNoAnswer ==
    (/\ kind = "fc"
     /\ last.act = "step"
     /\ last.resp.run = "ok"
     /\ GetToolsUsed(last.resp) = Ok(<<>>)
     /\ GetResponse(last.resp).ok
     /\ IsBlank(RenderText(GetResponse(last.resp).val))) =>
        /\ ret = None
        /\ pc = "running"

\* the same for the responses with no tool calls whose text is not blank:
\* the text is the answer of the run
C32_TextIsAnswer ==
    (/\ kind = "fc"
     /\ last.act = "step"
     /\ last.resp.run = "ok"
     /\ GetToolsUsed(last.resp) = Ok(<<>>)
     /\ GetResponse(last.resp).ok
     /\ ~IsBlank(RenderText(GetResponse(last.resp).val))) =>
        /\ ret = Some(Ok(RenderText(GetResponse(last.resp).val)))
        /\ pc = "idle"

\* ------------------------------------------------------------- properties of the interpreter
\* C15: in a code-agent step every failure of the interpreter other than
\* FinalAnswer leaves the host running, is recorded as the Execution error of
\* the step that is appended to the transcript, and the run goes on to the
\* next step.
C15_InterpreterFailureIsStepError ==
    \A k \in ScriptIds :
        ( /\ RanScript(k)
          /\ ~Forward(<<k>>, last.pre, tools).r.ok
          /\ Forward(<<k>>, last.pre, tools).r.err.kind # "FinalAnswer" ) =>
            /\ pc = "running"
            /\ step_number = last.n + 1
            /\ Len(logs) = last.len + 1
            /\ logs[Len(logs)].error =
                   Some(Execution(InterpreterErrorToString(
                            Forward(<<k>>, last.pre, tools).r.err)))

\* C16: when the source text does not parse, forward and evaluate_python_code
\* return SyntaxError and evaluate nothing: the bindings and the print log are
\* what they were before the call, also when the text starts with well-formed
\* statements that assign, print and call a tool.
C16_SyntaxErrorRunsNothing ==
    (last.act \in {"forward", "evaluate"} /\ Script(last.k).ast = None) =>
        /\ ~last.r.ok
        /\ last.r.err = SyntaxError("invalid syntax")
        /\ state = last.pre
        /\ pc = "ready"

\* the rejected script whose first two statements are well-formed, handed to
\* an interpreter that already holds bindings; the same statements alone
\* would have bound x and written the print log
C16_Witness ==
    /\ last.act = "forward"
    /\ last.k = 13
    /\ calls = 2
    /\ "y" \in DOMAIN state
    /\ "x" \notin DOMAIN state
    /\ "print_logs" \notin DOMAIN state
    /\ Forward(<<14>>, last.pre, tools).state # last.pre

\* the print log of a state, empty when no print has made one
PrintLog(st) ==
    IF "print_logs" \in DOMAIN st /\ st["print_logs"].any = "VecString"
    THEN st["print_logs"].l ELSE <<>>

\* the scripts that end with their one print call, and the string forms of
\* its arguments joined by single spaces
Printed(k) ==
    CASE k = 4 -> "hi"
      [] k = 12 -> "abab -1"
      [] k = 14 -> "results for rust"
      [] k = 15 -> ""

\* C17: every executed print call appends exactly one entry to the print log,
\* the string forms of its arguments joined by single spaces, and evaluates
\* to that string, whether or not a print log exists yet and for zero, one or
\* several arguments.
C17_PrintAppendsOneEntry ==
    (last.act = "forward" /\ last.k \in {4, 12, 14, 15} /\ last.r.ok) =>
        /\ PrintLog(state) = Append(PrintLog(last.pre), Printed(last.k))
        /\ last.r.val[1] = Printed(last.k)

\* the elements of the sequences the subscript scripts index
SeqItems(q) ==
    CASE q = 0 -> <<StrV("p"), StrV("q"), StrV("r")>>
      [] q = 1 -> <<StrV("a"), StrV("b"), StrV("c")>>
      [] q = 2 -> <<IntV(1), IntV(2), IntV(3)>>

\* C18: on a list or a string of length n, x = seq[i] binds x to element i
\* when 0 <= i < n and to element n + i when -n <= i < 0; any other integer
\* index fails with RuntimeError "IndexError: list index out of range" on a
\* list and "IndexError: string index out of range" on a string, and leaves
\* the environment as it was.
C18_SubscriptYieldsElement ==
    (last.act = "forward" /\ last.k \in SubscriptIds) =>
        LET items == SeqItems(SeqIdOf(last.k))
            n == Len(items)
            i == IndexOf(last.k)
        IN  IF 0 <= i /\ i < n
            THEN /\ last.r.ok
                 /\ state = Insert(last.pre, "x", AnyConstant(items[i + 1]))
            ELSE IF 0 - n <= i /\ i < 0
            THEN /\ last.r.ok
                 /\ state = Insert(last.pre, "x", AnyConstant(items[n + i + 1]))
            ELSE /\ ~last.r.ok
                 /\ last.r.err = RuntimeError(
                        "IndexError: " \o (IF SeqIdOf(last.k) = 1 THEN "string" ELSE "list")
                        \o " index out of range")
                 /\ state = last.pre

\* the name the scripts 8 and 16 read
NameRead(k) == IF k = 8 THEN "x" ELSE "y"

\* C19: an interpreter keeps its environment from one forward call to the
\* next: a script that fails at its second statement leaves the binding of
\* its first one, and a later script that reads a name bound by an earlier
\* call gets the value it was bound to and leaves the environment as it was.
C19_EnvironmentPersists ==
    /\ (last.act = "forward" /\ last.k = 6) =>
            /\ ~last.r.ok
            /\ last.r.err = RuntimeError("Variable 'z' used before assignment")
            /\ state = Insert(last.pre, "y", AnyConstant(StrV("w")))
    /\ (last.act = "forward" /\ last.k \in {8, 16}
            /\ NameRead(last.k) \in DOMAIN last.pre) =>
            /\ last.r.ok
            /\ last.r.val[1] = ValueStr(last.pre[NameRead(last.k)].v)
            /\ state = last.pre

\* the second call reads y, which only the first statement of the script
\* that failed in the first call binds to 'w'
C19_Witness ==
    /\ last.act = "forward"
    /\ last.k = 16
    /\ calls = 2
    /\ last.r.ok
    /\ last.r.val[1] = "w"
    /\ state["y"] = AnyConstant(StrV("w"))

\* the scripts that change a list in place through its name
ListScriptIds == 17..22

\* the name of the list, the Python list it is after the calls, its printed
\* form and the names the script binds
Receiver(k) == IF k = 18 THEN "m" ELSE "a"
Mutated(k) ==
    CASE k = 17 -> <<PyInt(1), PyInt(2), PyInt(3), PyInt(4)>>
      [] k = 18 -> <<PyStr("p"), PyStr("q")>>
      [] k = 19 -> <<PyStr("o"), PyStr("p"), PyStr("q"), PyStr("r")>>
      [] k = 20 -> <<PyStr("p"), PyInt(1), PyStr("p"), PyInt(1)>>
      [] k = 21 -> <<PyInt(1), PyInt(2), PyInt(3)>>
      [] k = 22 -> <<PyStr("p"), PyInt(1), PyInt(2)>>
MutatedPrinted(k) ==
    CASE k = 17 -> "[1, 2, 3, 4]"
      [] k = 18 -> "[p, q]"
      [] k = 19 -> "[o, p, q, r]"
      [] k = 20 -> "['p', 1, 'p', 1]"
      [] k = 21 -> "[1, 2, 3]"
      [] k = 22 -> "['p', 1, 2]"
Binds(k) ==
    CASE k = 17 -> {"a", "print_logs"}
      [] k = 18 -> {"u", "m", "url", "print_logs"}
      [] k = 19 -> {"a", "b", "print_logs"}
      [] k = 20 -> {"a", "i", "print_logs"}
      [] k = 21 -> {"a", "print_logs"}
      [] k = 22 -> {"a", "b", "print_logs"}

\* the scripts that copy the list to b before a call changes it, and the list
\* b was given
CopyScriptIds == {19, 22}
Copied(k) ==
    CASE k = 19 -> <<PyStr("p")>>
      [] k = 22 -> <<PyStr("p"), PyInt(1)>>

\* Python's == on two lists of numbers and strings
PyListEq(xs, ys) ==
    /\ Len(xs) = Len(ys)
    /\ \A i \in 1..Len(xs) :
          IF xs[i].py = "str" \/ ys[i].py = "str" THEN xs[i] = ys[i]
          ELSE PyNumber(xs[i]) = PyNumber(ys[i])

\* C20: after x.append(v), x.extend(s) or x.insert(i, v) on a name bound to
\* a list, at top level or in the body of a for loop, x is bound to the list
\* with the change made, the print of x that follows shows it, and no other
\* binding is altered: a name the script does not assign keeps its value, and
\* a name that was given the list before a call keeps the list it was given.
C20_InPlaceCallRebindsReceiver ==
    (last.act = "forward" /\ last.k \in ListScriptIds) =>
        /\ last.r.ok
        /\ Receiver(last.k) \in DOMAIN state
        /\ IntoPy(state[Receiver(last.k)].v).py = "list"
        /\ PyListEq(IntoPy(state[Receiver(last.k)].v).items, Mutated(last.k))
        /\ last.r.val[1] = MutatedPrinted(last.k)
        /\ PrintLog(state) = Append(PrintLog(last.pre), MutatedPrinted(last.k))
        /\ DOMAIN state = DOMAIN last.pre \cup Binds(last.k)
        /\ \A n \in DOMAIN last.pre \ Binds(last.k) : state[n] = last.pre[n]
        /\ (last.k \in CopyScriptIds =>
                PyListEq(IntoPy(state["b"].v).items, Copied(last.k)))

\* the scripts that are one for loop: the items it runs over, what the body
\* prints for each, and the value of the last body statement for the last item
LoopScriptIds == 23..25
LoopItems(k) ==
    CASE k = 23 -> <<StrV("p"), StrV("q"), StrV("r")>>
      [] k = 24 -> <<>>
      [] k = 25 -> <<IntV(0), IntV(1), IntV(2)>>
LoopValue(k) ==
    CASE k = 23 -> "r"
      [] k = 24 -> ""
      [] k = 25 -> "2"

\* the print of a loop body can log: no script has bound the name print_logs
\* to a value of its own
LogUsable(st) ==
    "print_logs" \in DOMAIN st => st["print_logs"].any = "VecString"

\* C21: a for loop over k items runs its body k times in the order of the
\* items with the target bound to the current item (the print of the body
\* logs each item once, in order); its value is that of the last body
\* statement for the last item, or the empty string when k = 0, where nothing
\* is bound or printed; afterwards the target is bound to the last item.
C21_ForLoopRunsBodyPerItem ==
    (last.act = "forward" /\ last.k \in LoopScriptIds /\ LogUsable(last.pre)) =>
        LET items == LoopItems(last.k)
        IN  /\ last.r.ok
            /\ last.r.val[1] = LoopValue(last.k)
            /\ PrintLog(state) =
                   PrintLog(last.pre) \o [i \in 1..Len(items) |-> ValueStr(items[i])]
            /\ IF Len(items) = 0 THEN state = last.pre
               ELSE /\ state["item"] = AnyConstant(items[Len(items)])
                    /\ DOMAIN state = DOMAIN last.pre \cup {"item", "print_logs"}
                    /\ \A n \in DOMAIN last.pre \ {"item", "print_logs"} :
                          state[n] = last.pre[n]

\* a loop over three items on an interpreter whose print log already holds
\* entries: three entries more, and the target holds the last item
C21_Witness ==
    /\ last.act = "forward"
    /\ last.k = 23
    /\ calls = 2
    /\ Len(PrintLog(last.pre)) > 0
    /\ Len(PrintLog(state)) = Len(PrintLog(last.pre)) + 3
    /\ state["item"] = AnyConstant(StrV("r"))

\* the scripts that parse and call neither a registered tool nor a builtin of
\* the host
CallFreeIds == {k \in InterpScriptIds : Script(k).ast # None} \ {14, 25}

\* what a forward or an evaluate_python_code reports of an evaluation: the
\* string form of the value, or the error
Reported(r) == IF r.ok THEN Ok(ValueStr(r.val)) ELSE r

\* what a call handed back, without the execution logs forward adds
Returned(act, r) == IF r.ok /\ act = "forward" THEN Ok(r.val[1]) ELSE r

ScriptResponse(k) == Response(Ok(Text("Thought: run this\n", <<k>>)), Ok(<<>>))

\* C30: run with reset = true on a code agent resets the transcript and the
\* step counter only: the environment of the interpreter, with the bindings
\* and the print log of the earlier runs, is left as it was, and a script of
\* the new run that reads x gets the value an earlier run bound it to,
\* after the print log the earlier runs left.
C30_ResetKeepsEnvironment ==
    [][ /\ (runs' = runs + 1) => state' = state
        /\ (kind = "code" /\ reset /\ last'.act = "step" /\ calls' = calls + 1
                /\ last'.resp = ScriptResponse(8) /\ "x" \in DOMAIN state) =>
                /\ state' = state
                /\ Len(logs') = Len(logs) + 1
                /\ logs'[Len(logs')].error = None
                /\ logs'[Len(logs')].observations =
                      Some(<<Observation(ValueStr(state["x"].v),
                                         JoinWith(PrintLog(state), "\n"))>>) ]_vars

\* the first step of a second run, with reset, reads the x and shows the
\* print log that the first run left
C30_Witness ==
    /\ kind = "code"
    /\ runs = 2
    /\ reset
    /\ steps = 1
    /\ last.act = "step"
    /\ last.resp = ScriptResponse(8)
    /\ "x" \in DOMAIN last.pre
    /\ PrintLog(last.pre) # <<>>
    /\ Len(logs) = 3
    /\ logs[3].observations = Some(<<"Execution logs: hi">>)

\* s is an initial part of t
IsPrefix(s, t) == Len(s) <= Len(t) /\ SubSeq(t, 1, Len(s)) = s

\* C31: the print log of an interpreter is append-only across forward calls:
\* a call, whether it succeeds or fails, leaves a log that starts with the
\* log it found, and a successful call returns the newline-join of the whole
\* log, so that what an earlier call printed is in every later execution log.
C31_PrintLogAppendOnly ==
    last.act = "forward" =>
        /\ IsPrefix(PrintLog(last.pre), PrintLog(state))
        /\ last.r.ok =>
              /\ last.r.val[2] = JoinWith(PrintLog(state), "\n")
              /\ PrintLog(last.pre) # <<>> => last.r.val[2] # ""

\* the same for the scripts that assign no name of their own choosing to
\* print_logs
C31_WithoutAssignmentToLog ==
    (last.act = "forward" /\ last.k # 26) =>
        /\ IsPrefix(PrintLog(last.pre), PrintLog(state))
        /\ last.r.ok => last.r.val[2] = JoinWith(PrintLog(state), "\n")

\* C35: an assignment evaluates its right-hand side exactly once, also with
\* chained targets and tuple targets: a = b = print('hi') logs one line and
\* binds both names to the value; a tuple target takes the items of the value
\* when the lengths agree, and otherwise the statement fails with a
\* RuntimeError and rebinds none of the names of the tuple.
C35_RightSideEvaluatedOnce ==
    /\ (last.act = "forward" /\ last.k = 27 /\ LogUsable(last.pre)) =>
            /\ last.r.ok
            /\ PrintLog(state) = Append(PrintLog(last.pre), "hi")
            /\ state["a"] = AnyConstant(StrV("hi"))
            /\ state["b"] = AnyConstant(StrV("hi"))
    /\ (last.act = "forward" /\ last.k = 28) =>
            /\ ~last.r.ok
            /\ last.r.err = RuntimeError("Tuple unpacking failed. Expected 2 values, got 3")
            /\ state = last.pre
    /\ (last.act = "forward" /\ last.k = 29) =>
            /\ last.r.ok
            /\ state = Insert(Insert(last.pre, "x", AnyConstant(StrV("p"))),
                              "y", AnyConstant(StrV("q")))

\* the same for the assignments with one target
C35_SingleTarget ==
    /\ (last.act = "forward" /\ last.k = 28) =>
            /\ ~last.r.ok
            /\ last.r.err = RuntimeError("Tuple unpacking failed. Expected 2 values, got 3")
            /\ state = last.pre
    /\ (last.act = "forward" /\ last.k = 29) =>
            /\ last.r.ok
            /\ state = Insert(Insert(last.pre, "x", AnyConstant(StrV("p"))),
                              "y", AnyConstant(StrV("q")))

\* C36: a call of a bare name is resolved in the order final_answer, print,
\* builtins, registered tools, after its arguments are evaluated: a registered
\* tool named final_answer, print or range is never invoked, a registered tool
\* of another name is, and a name that is none of these fails with
\* RuntimeError "Function '<name>' not found" after the print of its argument
\* has logged.
C36_CallResolutionOrder ==
    (last.act = "forward" /\ LogUsable(last.pre)) =>
        /\ last.k = 1 =>
              /\ ~last.r.ok
              /\ last.r.err = FinalAnswer("Hello, world!")
              /\ state = last.pre
        /\ last.k = 4 =>
              /\ last.r.ok
              /\ last.r.val[1] = "hi"
              /\ PrintLog(state) = Append(PrintLog(last.pre), "hi")
        /\ last.k = 25 =>
              /\ last.r.ok
              /\ last.r.val[1] = "2"
              /\ PrintLog(state) = PrintLog(last.pre) \o <<"0", "1", "2">>
        /\ last.k = 14 =>
              /\ last.r.ok
              /\ last.r.val[1] = "results for rust"
        /\ last.k = 30 =>
              /\ ~last.r.ok
              /\ last.r.err = RuntimeError("Function 'foo' not found")
              /\ PrintLog(state) = Append(PrintLog(last.pre), "hi")

\* on an interpreter whose registry holds tools named print and range, the
\* call of an unknown name fails after its argument has printed
C36_Witness ==
    /\ last.act = "forward"
    /\ last.k = 30
    /\ \E i \in 1..Len(tools) : tools[i] = "print"
    /\ \E i \in 1..Len(tools) : tools[i] = "final_answer"
    /\ ~last.r.ok
    /\ last.r.err = RuntimeError("Function 'foo' not found")
    /\ PrintLog(state) = <<"hi">>

\* C37: for every integer n within the range of a word, the conversions keep
\* the value: convert_bigint_to_i64(n) = n and convert_bigint_to_f64(n) is the
\* float of n, also when the magnitude of n has more than one digit.
C37_ConversionKeepsValue ==
    last.act = "convert" =>
        /\ ~last.i64.panic
        /\ last.i64.val = last.n
        /\ ~last.f64.panic
        /\ last.f64.val = last.n

\* the same for the integers of one digit, and for those whose two digits
\* are equal
C37_OneDigit ==
    (last.act = "convert"
        /\ \/ Magnitude(last.n) < DigitBase
           \/ Magnitude(last.n) % DigitBase = Magnitude(last.n) \div DigitBase) =>
        /\ ~last.i64.panic
        /\ last.i64.val = last.n
        /\ last.f64 = last.i64

\* the step of a code agent whose response held script k alone, and that
\* script evaluated to a value
Interpreted(k) ==
    /\ kind = "code"
    /\ last.act = "step"
    /\ last.resp = ScriptResponse(k)
    /\ Forward(<<k>>, last.pre, tools).r.ok

\* C38: a step of a code agent whose script evaluated records exactly one
\* observation, and the observation is made of both the value the interpreter
\* returned and its print log: with another value, or another log, it would
\* be another observation, whether or not anything has been printed.
C38_ObservationHoldsValueAndLog ==
    \A k \in ScriptIds :
        Interpreted(k) =>
            LET f == Forward(<<k>>, last.pre, tools).r.val
                step == logs[Len(logs)]
            IN  /\ Len(logs) = last.len + 1
                /\ step.error = None
                /\ step.observations # None
                /\ Len(step.observations[1]) = 1
                /\ step.observations[1][1] # Observation(f[1] \o "'", f[2])
                /\ step.observations[1][1] # Observation(f[1], f[2] \o "\n'")

\* the same for the steps before which and in which nothing was printed
C38_NothingPrinted ==
    \A k \in ScriptIds :
        (Interpreted(k) /\ Forward(<<k>>, last.pre, tools).r.val[2] = "") =>
            LET f == Forward(<<k>>, last.pre, tools).r.val
                step == logs[Len(logs)]
            IN  /\ Len(logs) = last.len + 1
                /\ step.error = None
                /\ step.observations = Some(<<"Observation: " \o f[1]>>)

\* ------------------------------------------------------------- properties of the memory
\* what executing the tool call tc observes: the text the step pushes for it
ObservationOf(tc) ==
    IF ToolGroupCall(tools, tc).ok
    THEN "Observation from " \o tc.name \o ": " \o Take30000(ToolGroupCall(tools, tc).val)
    ELSE ToolGroupCall(tools, tc).err.msg

\* the User messages the projection makes of one step
UserMessages(step) ==
    SelectSeq(ActionStepMessages(step, FALSE), LAMBDA msg : msg.role = "User")

\* C13: for every ActionStep of the transcript of a function-calling agent
\* that has tool calls and observations, the projection holds one User message
\* per tool call, the j-th being "Call id: <id of call j>\nObservation: <what
\* executing call j observed>", also when the response had text besides its
\* tool calls.
C13_CallIdCarriesOwnObservation ==
    \A i \in 1..Len(logs) :
        ( /\ kind = "fc"
          /\ logs[i].tag = "ActionStep"
          /\ logs[i].tool_call # None
          /\ logs[i].observations # None ) =>
            /\ Len(UserMessages(logs[i])) = Len(logs[i].tool_call[1])
            /\ \A j \in 1..Len(logs[i].tool_call[1]) :
                  UserMessages(logs[i])[j].content =
                      "Call id: " \o logs[i].tool_call[1][j].id[1]
                      \o "\nObservation: " \o ObservationOf(logs[i].tool_call[1][j])

\* C14: when step k recorded an error and the run went on, the messages sent
\* to the model at step k + 1 end with the User message "Error: <message of
\* that error>" followed by the retry hint; the same messages are what a run
\* in progress sends next.
C14_ErrorBecomesRetryHint ==
    /\ \A i \in 2..Len(logs) :
          ( /\ logs[i].tag = "ActionStep"
            /\ logs[i - 1].tag = "ActionStep"
            /\ logs[i - 1].error # None ) =>
              /\ logs[i].agent_memory # None
              /\ logs[i].agent_memory[1][Len(logs[i].agent_memory[1])] =
                    Message("User", "Error: " \o logs[i - 1].error[1].msg
                        \o "\nNow let's retry: take care not to repeat previous errors! If you have retried several times, try a completely different approach.\n")
    /\ ( /\ pc = "running"
         /\ logs[Len(logs)].tag = "ActionStep"
         /\ logs[Len(logs)].error # None ) =>
           WriteInnerMemoryFromLogs(logs, FALSE)[Len(WriteInnerMemoryFromLogs(logs, FALSE))].content
               = "Error: " \o logs[Len(logs)].error[1].msg \o RetryHint

\* a code agent whose first step read an unbound name and whose second step
\* was sent the Runtime Error of the first
C14_Witness ==
    /\ kind = "code"
    /\ Len(logs) >= 4
    /\ logs[3].tag = "ActionStep"
    /\ logs[3].error = Some(Execution("Runtime Error: Variable 'z' used before assignment"))
    /\ logs[4].tag = "ActionStep"
    /\ logs[4].agent_memory # None

\* s can be had from t by leaving entries of t out
RECURSIVE IsSubsequence(_, _)
IsSubsequence(s, t) ==
    IF s = <<>> THEN TRUE
    ELSE IF t = <<>> THEN FALSE
    ELSE IF s[1] = t[1] THEN IsSubsequence(Tail(s), Tail(t))
    ELSE IsSubsequence(s, Tail(t))

\* the messages of one entry that is no ActionStep
EntryMessages(e, summary_mode) ==
    IF e.tag = "SystemPromptStep" THEN <<[role |-> "System", content |-> e.text]>>
    ELSE IF e.tag = "TaskStep"
    THEN <<[role |-> "User", content |-> "New Task: " \o e.text]>>
    ELSE IF e.tag = "PlanningStep" /\ summary_mode
    THEN <<[role |-> "Assistant", content |-> "[PLAN]:\n" \o e.plan]>>
    ELSE IF e.tag = "PlanningStep"
    THEN <<[role |-> "Assistant", content |-> "[PLAN]:\n" \o e.plan],
           [role |-> "Assistant", content |-> "[FACTS]:\n" \o e.facts]>>
    ELSE <<>>

\* C33: the memory projection leaves the transcript and the step counter as
\* they are, and its output is, entry by entry and in order: one System
\* message with the prompt for a SystemPromptStep, one User message "New
\* Task: <text>" for a TaskStep, an Assistant message "[PLAN]:\n<plan>"
\* followed, outside summary mode only, by "[FACTS]:\n<facts>" for a
\* PlanningStep, nothing for a ToolCall; the output in summary mode is a
\* subsequence of the output in full mode.
C33_ProjectionIsPure ==
    last.act = "project" =>
        /\ logs = last.pre
        /\ step_number = last.n
        /\ last.out =
              Flatten([i \in 1..Len(last.pre) |->
                  IF last.pre[i].tag = "ActionStep"
                  THEN ActionStepMessages(last.pre[i], last.mode)
                  ELSE EntryMessages(last.pre[i], last.mode)])
        /\ IsSubsequence(WriteInnerMemoryFromLogs(last.pre, TRUE),
                         WriteInnerMemoryFromLogs(last.pre, FALSE))
        /\ last.mode =>
              IsSubsequence(last.out, WriteInnerMemoryFromLogs(logs, FALSE))

\* the projection in summary mode of a transcript with a PlanningStep, a
\* ToolCall and an ActionStep that has model output: two messages left out
C33_Witness ==
    /\ last.act = "project"
    /\ last.mode
    /\ logs = <<PlanningStep("plan A", "facts A"), ToolCallStep(TcSearch),
                ErrorActionStep>>
    /\ Len(last.out) = 2
    /\ last.out[1] = Message("Assistant", "[PLAN]:\nplan A")
    /\ Len(WriteInnerMemoryFromLogs(logs, FALSE)) = 4

\* no tool call of the step carries an id
NoCallIds(step) ==
    \A j \in 1..Len(step.tool_call[1]) : step.tool_call[1][j].id = None

\* C34: when the tool calls of an ActionStep carry no ids, as the
\* python_interpreter call a code agent makes up, the observations of the
\* step are projected as the one User message "Observations: <observations
\* joined>", not as "Call id:" messages.
C34_NoIdsGiveCombinedMessage ==
    \A i \in 1..Len(logs) :
        ( /\ logs[i].tag = "ActionStep"
          /\ logs[i].tool_call # None
          /\ logs[i].observations # None
          /\ NoCallIds(logs[i]) ) =>
            UserMessages(logs[i]) =
                <<Message("User", "Observations: "
                                  \o JoinWith(logs[i].observations[1], "\n"))>>

\* the position of the first final_answer call of tcs, or Len(tcs) + 1
FirstFinal(tcs) ==
    IF \E j \in 1..Len(tcs) : tcs[j].name = "final_answer"
    THEN CHOOSE j \in 1..Len(tcs) :
            /\ tcs[j].name = "final_answer"
            /\ \A i \in 1..(j - 1) : tcs[i].name # "final_answer"
    ELSE Len(tcs) + 1

\* the observation the text of a response gives before the tool calls
TextObservation(resp) ==
    IF GetResponse(resp).ok /\ ~IsBlank(RenderText(GetResponse(resp).val))
    THEN <<RenderText(GetResponse(resp).val)>> ELSE <<>>

\* C40: in a function-calling step the returned tool calls are dispatched one
\* after the other in the order returned, each giving one observation, the
\* output of the tool or the text of its error; a final_answer call ends the
\* step at once with its result, so that the calls before it have been
\* dispatched and the calls after it never are.
C40_DispatchInOrderUntilFinal ==
    (/\ kind = "fc"
     /\ last.act = "step"
     /\ last.resp.run = "ok"
     /\ GetToolsUsed(last.resp).ok
     /\ GetToolsUsed(last.resp).val # <<>>) =>
        LET tcs == GetToolsUsed(last.resp).val
            j == FirstFinal(tcs)
            d == DispatchToolCalls(tools, tcs, TextObservation(last.resp))
        IN  /\ d.dispatched = SubSeq(tcs, 1, IF j <= Len(tcs) THEN j ELSE Len(tcs))
            /\ d.observations = TextObservation(last.resp)
                    \o [i \in 1..(j - 1) |-> ObservationOf(tcs[i])]
            /\ IF j > Len(tcs)
               THEN /\ pc = "running"
                    /\ ret = None
                    /\ Len(logs) = last.len + 1
                    /\ logs[Len(logs)].observations = Some(d.observations)
               ELSE /\ pc = "idle"
                    /\ ret = IF ToolGroupCall(tools, tcs[j]).ok
                             THEN Some(Ok(ToolGroupCall(tools, tcs[j]).val))
                             ELSE Some(Err(ToolGroupCall(tools, tcs[j]).err))

\* a response with a search call before its final_answer call: both were
\* dispatched and the run returned the answer; and one with the search call
\* after it, which is not dispatched
C40_Witness ==
    /\ kind = "fc"
    /\ last.act = "step"
    /\ last.resp = Response(Ok(Text("", <<>>)), Ok(<<TcFinal, TcSearch>>))
    /\ DispatchToolCalls(tools, <<TcFinal, TcSearch>>, <<>>).dispatched = <<TcFinal>>
    /\ DispatchToolCalls(tools, <<TcSearch, TcFinal>>, <<>>).dispatched
           = <<TcSearch, TcFinal>>
    /\ ret = Some(Ok("42"))
    /\ pc = "idle"

\* ------------------------------------------------------------- the parallel runner
\* the batches handed to run_tasks_parallel: M distinct tasks, M = 0..MaxTasks
Batches == {[i \in 1..m |-> TaskOf(i)] : m \in 0..MaxTasks}

\* an anyhow error made from a message
Anyhow(m) == [class |-> "anyhow", msg |-> m]

\* JoinHandle::join().unwrap_or_else(|_| Err(anyhow!("Thread panicked")))
JoinOrDefault(position, out) ==
    IF position = "panicked" THEN Ok("") ELSE out[1]
JoinOrPanicked(position, out) ==
    IF position = "panicked" THEN Err(Anyhow("Thread panicked")) ELSE out[1]

\* what collect() makes of the vector so far and the next joined handle
CollectFront(rs, r) == <<r>> \o rs
Collect(rs, r) == Append(rs, r)

\* what agent.run(&task, false, true) of a worker can end with
RunOutcomes(t) ==
    {[end |-> "return", r |-> Ok("answer to " \o t)],
     [end |-> "return", r |-> Err(Generation("model call failed"))],
     [end |-> "panic"]}

\* the call of run_tasks_parallel; the agent of the first part of the module is
\* not driven here
ParInit ==
    /\ kind = "fc"
    /\ max_steps = 1
    /\ tools = NewTools(<<"duckduckgo_search">>)
    /\ step_number = 0
    /\ task = ""
    /\ logs = <<>>
    /\ state = EmptyState
    /\ pc = "idle"
    /\ reset = FALSE
    /\ ret = None
    /\ runs = 0
    /\ calls = 0
    /\ steps = 0
    /\ entry = 0
    /\ last = [act |-> "new"]
    /\ ptasks \in Batches
    /\ ppc = "spawning"
    /\ worker = <<>>
    /\ outcome = <<>>
    /\ results = <<>>
    /\ builds = <<>>
    /\ agents = <<>>
    /\ logger_set \in BOOLEAN

\* one turn of the for loop: thread::spawn for the next task
Spawn ==
    /\ ppc = "spawning"
    /\ Len(worker) < Len(ptasks)
    /\ worker' = Append(worker, "spawned")
    /\ outcome' = Append(outcome, None)
    /\ builds' = Append(builds, 0)
    /\ UNCHANGED <<agentVars, ptasks, ppc, results, agents, logger_set>>

\* the for loop is over: the handles are now joined in order
StartJoin ==
    /\ ppc = "spawning"
    /\ Len(worker) = Len(ptasks)
    /\ ppc' = "joining"
    /\ UNCHANGED <<agentVars, ptasks, worker, outcome, results, builds, agents, logger_set>>

\* the agent a builder() call of worker i returns: a local of that worker's
\* closure, on which no run has been made
NewAgent(i) == [owner |-> i, users |-> <<>>, run_calls |-> <<>>]

\* the arguments of the run a worker makes on its agent
RunWithoutReset(t) == [task |-> t, stream |-> FALSE, reset |-> FALSE]
RunArguments(t) == [task |-> t, stream |-> FALSE, reset |-> TRUE]

\* the agent the closure of worker i holds: the one its builder() call returned
AgentOf(i) == CHOOSE k \in 1..Len(agents) : agents[k].owner = i

\* worker i calls builder(): the agent constructor installs the process-wide
\* logger with set_logger(..).unwrap(), which panics once a logger is installed
Build(i) ==
    /\ worker[i] = "spawned"
    /\ builds' = [builds EXCEPT ![i] = @ + 1]
    /\ IF logger_set
       THEN /\ worker' = [worker EXCEPT ![i] = "panicked"]
            /\ UNCHANGED <<logger_set, agents>>
       ELSE /\ worker' = [worker EXCEPT ![i] = "built"]
            /\ logger_set' = TRUE
            /\ agents' = Append(agents, NewAgent(i))
    /\ UNCHANGED <<agentVars, ptasks, ppc, outcome, results>>

\* worker i runs its agent on its task and its closure ends
WorkerRun(i) ==
    /\ worker[i] = "built"
    /\ \E out \in RunOutcomes(ptasks[i]) :
          IF out.end = "panic"
          THEN worker' = [worker EXCEPT ![i] = "panicked"] /\ UNCHANGED outcome
          ELSE /\ worker' = [worker EXCEPT ![i] = "finished"]
               /\ outcome' = [outcome EXCEPT ![i] = Some(out.r)]
    /\ agents' = [agents EXCEPT ![AgentOf(i)] =
                      [@ EXCEPT !.users = Append(@, i),
                                !.run_calls = Append(@, RunArguments(ptasks[i]))]]
    /\ UNCHANGED <<agentVars, ptasks, ppc, results, builds, logger_set>>

\* the calling thread joins the next handle, which blocks until that worker ended
Join ==
    /\ ppc = "joining"
    /\ Len(results) < Len(ptasks)
    /\ worker[Len(results) + 1] \in {"finished", "panicked"}
    /\ results' = Collect(results, JoinOrPanicked(worker[Len(results) + 1],
                                                   outcome[Len(results) + 1]))
    /\ UNCHANGED <<agentVars, ptasks, ppc, worker, outcome, builds, agents, logger_set>>

\* run_tasks_parallel returns the collected vector
Return ==
    /\ ppc = "joining"
    /\ Len(results) = Len(ptasks)
    /\ ppc' = "returned"
    /\ UNCHANGED <<agentVars, ptasks, worker, outcome, results, builds, agents, logger_set>>

NextParallel ==
    \/ Spawn
    \/ StartJoin
    \/ \E i \in 1..Len(worker) : Build(i)
    \/ \E i \in 1..Len(worker) : WorkerRun(i)
    \/ Join
    \/ Return

SpecParallel == ParInit /\ [][NextParallel]_vars

\* ------------------------------------------------------------- properties of a batch
\* C10: run_tasks_parallel has returned only when every spawned worker has
\* ended, and what it returns has one entry per task, entry i being what the
\* worker of task i ended with, whatever the order the workers ended in.
C10_ResultsInTaskOrder ==
    ppc = "returned" =>
        /\ Len(worker) = Len(ptasks)
        /\ \A i \in 1..Len(ptasks) : worker[i] \in {"finished", "panicked"}
        /\ Len(results) = Len(ptasks)
        /\ \A i \in 1..Len(ptasks) :
              IF worker[i] = "panicked"
              THEN ~results[i].ok /\ results[i].err.msg = "Thread panicked"
              ELSE /\ outcome[i] # None
                   /\ results[i] = outcome[i][1]
                   /\ results[i].ok => results[i].val = "answer to " \o ptasks[i]

\* a batch of three whose second worker answered while the first and the third
\* panicked
C10_Witness ==
    /\ ppc = "returned"
    /\ Len(ptasks) = 3
    /\ ~results[1].ok
    /\ results[2].ok
    /\ results[2].val = "answer to task 2"
    /\ ~results[3].ok

\* C11: a worker that panicked, building its agent or running it, or whose run
\* returned an error, has an Err in its own slot of the results and in no
\* other: every other slot holds what its own worker ended with, an answer
\* staying the answer to its task; run_tasks_parallel itself never panics.
C11_FailureStaysInItsSlot ==
    /\ ppc \in {"spawning", "joining", "returned"}
    /\ \A i \in 1..Len(results) :
          IF worker[i] = "panicked" \/ ~outcome[i][1].ok
          THEN ~results[i].ok
          ELSE results[i].ok /\ results[i].val = "answer to " \o ptasks[i]
    /\ (ppc = "returned" =>
           Cardinality({i \in 1..Len(results) : ~results[i].ok})
               = Cardinality({i \in 1..Len(worker) :
                                 worker[i] = "panicked" \/ ~outcome[i][1].ok}))

\* a batch of two that returned: the first worker answered, the second
\* panicked, and the answer of the first is in slot 1
C11_Witness ==
    /\ ppc = "returned"
    /\ Len(ptasks) = 2
    /\ worker = <<"finished", "panicked">>
    /\ results[1] = Ok("answer to task 1")
    /\ ~results[2].ok

\* C12: each worker calls builder() exactly once, in its own thread; an agent
\* instance is run by the worker that built it and by no other, at most once,
\* on that worker's task with stream = false and reset = true; no two workers
\* hold the same instance.
C12_OneAgentPerWorker ==
    /\ Len(builds) = Len(worker)
    /\ \A i \in 1..Len(worker) :
          builds[i] = (IF worker[i] = "spawned" THEN 0 ELSE 1)
    /\ \A k \in 1..Len(agents) :
          /\ \A u \in 1..Len(agents[k].users) : agents[k].users[u] = agents[k].owner
          /\ Len(agents[k].run_calls) <= 1
          /\ \A c \in 1..Len(agents[k].run_calls) :
                /\ agents[k].run_calls[c].reset
                /\ ~agents[k].run_calls[c].stream
                /\ agents[k].run_calls[c].task = ptasks[agents[k].owner]
          /\ \A l \in 1..Len(agents) : agents[l].owner = agents[k].owner => l = k
    /\ (ppc = "returned" => \A i \in 1..Len(ptasks) : builds[i] = 1)

\* a batch of two that returned: each worker called builder() once, the second
\* got the agent and ran it once on its own task
C12_Witness ==
    /\ ppc = "returned"
    /\ builds = <<1, 1>>
    /\ Len(agents) = 1
    /\ agents[1].owner = 2
    /\ agents[1].users = <<2>>
    /\ agents[1].run_calls = <<[task |-> "task 2", stream |-> FALSE, reset |-> TRUE]>>

\* C39: constructing an agent never fails on account of the process-wide
\* logger: every worker of a batch that has called builder() holds the agent
\* it built, whether or not an agent was constructed in the process before
\* and whatever the order of the workers.
C39_ConstructionAlwaysSucceeds ==
    \A i \in 1..Len(worker) :
        builds[i] >= 1 =>
            /\ \E k \in 1..Len(agents) : agents[k].owner = i
            /\ worker[i] # "spawned"

====
